---- MODULE Spec2Model ----
(***************************************************************************)
(* Host2Play auto-renew: the reCAPTCHA image-grid solving engine.          *)
(*                                                                         *)
(*   src/host2play_auto_renew.py                                           *)
(*     get_target_num_from_text, dynamic_and_selection_solver,             *)
(*     get_occupied_cells, square_solver, solve_recaptcha_with_yolo        *)
(*                                                                         *)
(* Spec      the state machine of one call of solve_recaptcha_with_yolo.   *)
(* SpecGeom  the pure mapping functions applied to bounded detector output.*)
(***************************************************************************)
EXTENDS Integers, Sequences, FiniteSets, TLC

\* ------------------------------------------------------------------------
\* Helpers
\* ------------------------------------------------------------------------

SetMin(S) == CHOOSE x \in S : \A y \in S : x <= y

SetMax(S) == CHOOSE x \in S : \A y \in S : x >= y

RECURSIVE SortedSeq(_)
\* sorted(list(S)) for a finite set S of integers
SortedSeq(S) ==
  IF S = {} THEN << >>
  ELSE LET m == SetMin(S) IN << m >> \o SortedSeq(S \ {m})

Range(s) == { s[i] : i \in DOMAIN s }

\* ------------------------------------------------------------------------
\* Text.  A text is a sequence of tokens; a token is a keyword together with
\* the information whether it is written with capital letters.  str.lower()
\* clears the capitals; `term in text` matches lower-case tokens only.
\* ------------------------------------------------------------------------

Tok(w, c) == [word |-> w, caps |-> c]

lower(text) == [i \in DOMAIN text |-> Tok(text[i].word, FALSE)]

Contains(term, text) ==
  \E i \in DOMAIN text : text[i].word = term /\ ~text[i].caps

\* ------------------------------------------------------------------------
\* TargetResolver
\* ------------------------------------------------------------------------

UNSUPPORTED == 1000

\* the table with the entries of bus and boat in the other order
target_mappings_reordered ==
  << <<"bicycle", 1>>, <<"boat", 8>>, <<"bus", 5>>, <<"car", 2>>,
     <<"hydrant", 10>>, <<"motorcycle", 3>>, <<"traffic", 9>> >>

\* the table with the ids of bus and boat exchanged
target_mappings_swapped ==
  << <<"bicycle", 1>>, <<"bus", 8>>, <<"boat", 5>>, <<"car", 2>>,
     <<"hydrant", 10>>, <<"motorcycle", 3>>, <<"traffic", 9>> >>

\* the dict literal, in insertion order
target_mappings ==
  << <<"bicycle", 1>>, <<"bus", 5>>, <<"boat", 8>>, <<"car", 2>>,
     <<"hydrant", 10>>, <<"motorcycle", 3>>, <<"traffic", 9>> >>

RECURSIVE FirstMatch(_, _)
FirstMatch(text_lower, i) ==
  IF i > Len(target_mappings) THEN UNSUPPORTED
  ELSE IF Contains(target_mappings[i][1], text_lower) THEN target_mappings[i][2]
  ELSE FirstMatch(text_lower, i + 1)

get_target_num_from_text(text) == FirstMatch(lower(text), 1)

\* host2play_auto_renew_ci_selenium.py: the same table; an instruction that
\* cannot be read is the sentinel too
get_target_num(readable, text) ==
  IF ~readable THEN UNSUPPORTED ELSE FirstMatch(lower(text), 1)

\* ------------------------------------------------------------------------
\* GeometryMapper.  A detection is [cls, x1, y1, x2, y2], the coordinates
\* already truncated to integers (int(target_box[k])).
\* ------------------------------------------------------------------------

Det(c, a, b, d, e) == [cls |-> c, x1 |-> a, y1 |-> b, x2 |-> d, y2 |-> e]

\* every detection, whatever its class
target_index_all(target_num, dets) == DOMAIN dets

\* indices of the detections of the target class, in order
target_index(target_num, dets) ==
  { i \in DOMAIN dets : dets[i].cls = target_num }

\* the cell of the top left corner instead of the centre
Cell3x3TopLeft(box) == (box.y1 \div 100) * 3 + (box.x1 \div 100) + 1

\* xc = (x1+x2)/2 ; col = xc // 100  ==  (x1+x2) div 200 ; likewise the row
Cell3x3(box) ==
  LET row == (box.y1 + box.y2) \div 200
      col == (box.x1 + box.x2) \div 200
  IN row * 3 + col + 1

\* exists0: 0.png exists; raises: model.predict (or Image.open) raises
dynamic_and_selection_solver(target_num, exists0, raises, dets) ==
  IF ~exists0 \/ raises THEN << >>
  ELSE SortedSeq({ Cell3x3(dets[i]) : i \in target_index(target_num, dets) })

\* the corner cells alone, without the fill
get_occupied_cells_corners(vertices) == SortedSeq(Range(vertices))

\* the rows between the first and the last filled, the columns as given
get_occupied_cells_rows(vertices) ==
  LET rows == { (vertices[k] - 1) \div 4 : k \in DOMAIN vertices }
      cols == { (vertices[k] - 1) % 4 : k \in DOMAIN vertices }
  IN SortedSeq({ 4 * i + j + 1 : i \in SetMin(rows)..SetMax(rows),
                                 j \in cols })

\* get_occupied_cells on a non-empty list of cells
get_occupied_cells(vertices) ==
  LET rows == { (vertices[k] - 1) \div 4 : k \in DOMAIN vertices }
      cols == { (vertices[k] - 1) % 4 : k \in DOMAIN vertices }
  IN SortedSeq({ 4 * i + j + 1 : i \in SetMin(rows)..SetMax(rows),
                                 j \in SetMin(cols)..SetMax(cols) })

\* The band of one coordinate: 0..3, or -1 when no condition of the chain
\* matches.  Compared doubled: v < 112.5 is 2v < 225, and so on.
BandX(x) ==
  IF 2 * x < 225 THEN 0
  ELSE IF 225 < 2 * x /\ 2 * x < 450 THEN 1
  ELSE IF 450 < 2 * x /\ 2 * x < 675 THEN 2
  ELSE IF 675 < 2 * x /\ x <= 450 THEN 3
  ELSE -1

BandY(y) ==
  IF 2 * y < 225 THEN 0
  ELSE IF 225 < 2 * y /\ 2 * y < 450 THEN 1
  ELSE IF 450 < 2 * y /\ 2 * y < 675 THEN 2
  ELSE IF 675 < 2 * y /\ y <= 450 THEN 3
  ELSE -1

\* what the sixteen `if` lines append for one sample point
PointCells(x, y) ==
  IF BandX(x) = -1 \/ BandY(y) = -1 THEN << >>
  ELSE << 4 * BandY(y) + BandX(x) + 1 >>

\* the four corners (x1,y1) (x4,y1) (x1,y4) (x4,y4) of one box
four_cells(box) ==
  PointCells(box.x1, box.y1) \o PointCells(box.x2, box.y1) \o
  PointCells(box.x1, box.y2) \o PointCells(box.x2, box.y2)

\* get_occupied_cells raises ValueError on an empty list (zip(*[]) cannot be
\* unpacked into rows, cols); the except clause of square_solver then
\* returns [] for the whole image.
SquareRaises(target_num, dets) ==
  \E i \in target_index(target_num, dets) : four_cells(dets[i]) = << >>

\* the detector output is used without a look at the file
square_solver_no_file_check(target_num, exists0, raises, dets) ==
  IF raises \/ SquareRaises(target_num, dets) THEN << >>
  ELSE SortedSeq(UNION { Range(get_occupied_cells(four_cells(dets[i]))) :
                         i \in target_index(target_num, dets) })

square_solver(target_num, exists0, raises, dets) ==
  IF ~exists0 \/ raises \/ SquareRaises(target_num, dets) THEN << >>
  ELSE SortedSeq(UNION { Range(get_occupied_cells(four_cells(dets[i]))) :
                         i \in target_index(target_num, dets) })

\* ------------------------------------------------------------------------
\* ChallengeClassifier and the acceptance rule of the reload loop
\* ------------------------------------------------------------------------

\* 'none' is looked for before 'squares'
classify_variant_none_first(title) ==
  IF Contains("none", lower(title)) THEN "dynamic"
  ELSE IF Contains("squares", lower(title)) THEN "squares"
  ELSE "selection"

\* lines 680-692: "squares" first, then "none", else selection
classify_variant(title) ==
  IF Contains("squares", lower(title)) THEN "squares"
  ELSE IF Contains("none", lower(title)) THEN "dynamic"
  ELSE "selection"

\* the acceptance rule without the upper limit of squares
AcceptedLoose(ctype, ans) == Len(ans) >= 1

\* the acceptance rule without the lower limit
AcceptedEmpty(ctype, ans) ==
  IF ctype = "squares" THEN Len(ans) < 16 ELSE TRUE

\* lines 699-716: the condition under which the reload loop is left by break
Accepted(ctype, ans) ==
  IF ctype = "squares" THEN Len(ans) >= 1 /\ Len(ans) < 16
  ELSE Len(ans) >= 1

\* ------------------------------------------------------------------------
\* ImageChangeDetector (lines 774-782)
\* ------------------------------------------------------------------------

index_common(ans, new_urls, before) ==
  { a \in Range(ans) : /\ a <= Len(new_urls)
                        /\ a <= Len(before)
                        /\ new_urls[a] = before[a] }

\* new content as soon as one answered tile has another identifier
NewContentAny(ans, new_urls, before) ==
  \E a \in Range(ans) : /\ a <= Len(new_urls) /\ a <= Len(before)
                         /\ new_urls[a] # before[a]

NewContent(ans, new_urls, before) ==
  Cardinality(index_common(ans, new_urls, before)) < 1

\* ------------------------------------------------------------------------
\* Bounds and program constants
\* ------------------------------------------------------------------------

\* largest max_attempts a call is made with
MaxAttempts == 2

max_reload == 15

max_dynamic_rounds == 15

\* solve_recaptcha_ia
max_reload_attempts == 5

\* the literal of `while retry_detect < 20 and not is_new`
max_retry_detect == 20

\* one poll more than the budget
PollAgainOneMore(retries, is_new) == retries <= max_retry_detect /\ ~is_new

\* line 762: the condition of the polling loop
PollAgain(retries, is_new) == retries < max_retry_detect /\ ~is_new

\* ------------------------------------------------------------------------
\* What the collaborators may answer
\* ------------------------------------------------------------------------

\* text of '#rc-imageselect strong'
TargetTexts ==
  { << >>,
    << Tok("bicycle", TRUE) >>,
    << Tok("car", FALSE), Tok("bicycle", FALSE) >> }

\* text of '#rc-imageselect' ("" when the element is missing)
TitleTexts ==
  { << >>,
    << Tok("none", FALSE) >>,
    << Tok("squares", TRUE) >>,
    << Tok("squares", FALSE), Tok("none", FALSE) >> }

Tiles9(changed) == [i \in 1..9 |-> IF i \in changed THEN 1 ELSE 0]

\* src attributes of '#rc-imageselect-target img', one identifier per tile:
\* what a poll of the dynamic loop may read
UrlLists ==
  { << >>, << 0 >>, Tiles9({}), Tiles9({2}), Tiles9({2, 7}) }

\* the same, read when a challenge is classified
GridUrls == { << >>, Tiles9({}) }

\* detector output on a 3x3 image
Dets3 ==
  { << >>,
    << Det(2, 100, 0, 200, 100) >>,
    << Det(1, 0, 200, 100, 300), Det(2, 0, 0, 100, 100),
       Det(1, 100, 0, 200, 100) >> }

\* detector output on a 4x4 image
Dets4 ==
  { << >>,
    << Det(1, 0, 0, 112, 112) >>,
    << Det(1, 100, 100, 250, 250) >>,
    << Det(1, 0, 0, 450, 450) >>,
    << Det(1, 0, 0, 112, 112), Det(1, 225, 0, 225, 100) >> }

\* ------------------------------------------------------------------------
\* State
\* ------------------------------------------------------------------------

VARIABLES
  pc,               \* position in solve_recaptcha_with_yolo
  result,           \* "none" until the call returns, then TRUE or FALSE
  signal,           \* the positive signal observed by the returning step
  yolo,             \* YOLO_AVAILABLE
  keep,             \* keep_captcha_images as the finally clause set it:
                    \* "unread" before, then "true" or "false"
  max_attempts,     \* the parameter
  outer_attempt, reload_count, dynamic_rounds, retry_detect,
  captcha_type, answers, img_urls, target_num,
  new_img_urls,     \* the tile identifiers the last poll read (line 765)
  title_text,       \* the panel text the classification read (line 664)
  png0,             \* 0.png exists
  tiles,            \* one of 1.png .. 16.png exists
  k,                \* position of the running click loop in answers
  panelAppeared,    \* a challenge frame has been on the page
  challenge_frame,  \* the frame reference the next step works on: "None",
                    \* "fresh" (looked up by the step before) or "cached"
                    \* (kept over the awaits of a step or more)
  assigned,         \* which of captcha_type and answers the running
                    \* iteration of the reload loop has assigned
  obs,              \* what the last step saw of its collaborators
  acts,             \* the operations the last step performed
  clicked,          \* cells clicked by the click loop that runs or just ended
  attemptVerify,    \* the verify button was clicked in this attempt
  verifyClicks,     \* verify clicks of the call
  attempt, reload_attempts, captcha,   \* locals of solve_recaptcha_ia
  gphase, gtarget, gexists, graises, gdets, gout,  \* SpecGeom
  gtext, gnum,      \* SpecText: an instruction text and what it resolves to
  grun1, grun2,     \* SpecRerun: what two runs on the same inputs gave
  mpc,              \* SpecMain: position in main
  recaptcha_success,  \* "none", then "True" or "False": what
                    \* solve_recaptcha_with_yolo returned
  notified,         \* the messages handed to send_telegram_message
  modal_clicked,    \* the confirmation button of the dialog was clicked
  page_text,        \* the body text read after the confirmation
  raised,           \* main has re-raised an exception
  dpc,              \* SpecDownload: position in download_yolo_model
  dfile,            \* which file's download_yolo_model runs
  durl,             \* position of the loop in MODEL_DOWNLOAD_URLS
  tried,            \* the requests so far, in order: the entry, what came
                    \* of it and the bytes written
  model_size,       \* bytes of the file at MODEL_PATH, -1 without a file
  tmp_size,         \* bytes of the file at MODEL_PATH + ".tmp", or -1
  temp_path_bound,  \* the local temp_path has been assigned
  dresult,          \* "none", "True", "False", or "raised"
  gvertices,        \* SpecCells: the list given to get_occupied_cells
  png0_img,         \* SpecPaste: the pixels of 0.png, as red, green, blue
  ploc              \* the cell whose tile is pasted

ctrl     == << pc, result, signal >>
config   == << yolo, max_attempts >>
counters == << outer_attempt, reload_count, dynamic_rounds, retry_detect >>
chal     == << captcha_type, answers, img_urls, target_num,
               new_img_urls, title_text >>
files    == << png0, tiles, keep >>
clicks   == << k, clicked, attemptVerify, verifyClicks >>
ia       == << attempt, reload_attempts, captcha >>
mainv    == << mpc, recaptcha_success, notified, modal_clicked, page_text,
               raised >>
dlv      == << dpc, dfile, durl, tried, model_size, tmp_size,
               temp_path_bound, dresult >>
pastev   == << png0_img, ploc >>
aux      == << mainv, dlv, gvertices, pastev >>
geom     == << gphase, gtarget, gexists, graises, gdets, gout,
               gtext, gnum, grun1, grun2, aux >>
vars     == << ctrl, config, counters, chal, files, clicks, panelAppeared,
               challenge_frame, assigned, obs, acts, ia, geom >>

\* lines 682-683, 694-695: a failed grid screenshot is answered by
\* `continue`; here the iteration would go on to the acceptance check
AfterNoScreenshotGoOn == "accept"

AfterNoScreenshot == "reload_head"

\* the locals the classification step has assigned (lines 683-684, 688,
\* 691, 696), kept from the break of the reload loop to the first batch of
\* clicks; a new iteration and a new attempt start with none
AssignedAfter ==
  IF pc = "classify"
  THEN IF "detect" \in acts' THEN {"captcha_type", "answers"}
       ELSE IF "grid3" \in acts' THEN {"captcha_type"}
       ELSE {}
  ELSE IF /\ pc \in {"accept", "after_reload", "wait_grid", "clicking"}
          /\ pc' \in {"after_reload", "wait_grid", "clicking"}
  THEN assigned
  ELSE {}

\* the positions from which challenge_frame is read before it is assigned
\* again: from the lookup of line 626 to the verify step
FramePcs ==
  {"get_target", "target_check", "classify", "accept", "after_reload",
   "wait_grid", "clicking", "dyn_head", "poll", "refresh", "dyn_clicking",
   "verify"}

\* the local challenge_frame after a step that does not assign it: the same
\* reference, looked up before the awaits of the step (every step from
\* line 638 to line 847 awaits a call on the frame or a sleep).  Where the
\* next read comes after the lookup of line 626 the value is dropped.
FrameAfter ==
  IF pc' \notin FramePcs \/ challenge_frame = "None" THEN "None"
  ELSE "cached"

\* the local challenge_frame after one of the loops over page.frames (lines
\* 575-580, 626-630, 869-873)
FrameLookedUp ==
  IF pc' \notin FramePcs THEN "None"
  ELSE IF obs' = "present" THEN "fresh" ELSE "None"

\* main is not running
MainOff ==
  /\ mpc = "off" /\ recaptcha_success = "none" /\ notified = {}
  /\ modal_clicked = FALSE /\ page_text = << >> /\ raised = FALSE

\* download_yolo_model is not running
DownloadOff ==
  /\ dpc = "off" /\ dfile = "none" /\ durl = 0 /\ tried = << >>
  /\ model_size = -1 /\ tmp_size = -1 /\ temp_path_bound = FALSE
  /\ dresult = "none"

\* nothing is pasted
PasteOff == png0_img = << >> /\ ploc = 0

AuxOff == MainOff /\ DownloadOff /\ gvertices = << >> /\ PasteOff

\* no run of the classification and mapping steps yet
NoRun == [target_num |-> 0, captcha_type |-> "None", answers |-> << >>]

\* line 757: before_img_urls is img_urls as the round found it; img_urls is
\* assigned again only by the poll that ends the polling (line 782)
before_img_urls == img_urls

GeomOff ==
  /\ gphase = "off" /\ gtarget = 0 /\ gexists = FALSE /\ graises = FALSE
  /\ gdets = << >> /\ gout = << >>
  /\ gtext = << >> /\ gnum = 0
  /\ grun1 = NoRun /\ grun2 = NoRun
  /\ AuxOff

\* the call is solve_recaptcha_with_yolo (pc = "start") or the Selenium
\* variant solve_recaptcha_ia (pc = "ia_start"), which never reads
\* YOLO_AVAILABLE
Init ==
  /\ \/ pc = "start" /\ yolo \in BOOLEAN
     \/ pc = "ia_start" /\ yolo = TRUE
  /\ result = "none" /\ signal = "none"
  /\ keep = "unread"
  /\ attempt = 0 /\ reload_attempts = 0 /\ captcha = "None"
  /\ max_attempts \in 1..MaxAttempts
  /\ outer_attempt = 0 /\ reload_count = 0
  /\ dynamic_rounds = 0 /\ retry_detect = 0
  /\ captcha_type = "None" /\ answers = << >> /\ img_urls = << >>
  /\ target_num = UNSUPPORTED /\ new_img_urls = << >>
  /\ title_text = << >>
  /\ png0 \in BOOLEAN /\ tiles = FALSE
  /\ k = 0 /\ clicked = {} /\ attemptVerify = FALSE /\ verifyClicks = 0
  /\ panelAppeared = FALSE /\ obs = "none" /\ acts = {}
  /\ challenge_frame = "None"
  /\ assigned = {}
  /\ GeomOff

\* ------------------------------------------------------------------------
\* Leaving the call
\* ------------------------------------------------------------------------

\* lines 897-912, the finally clause: 1.png..16.png are removed, 0.png only
\* when KEEP_CAPTCHA_IMAGES is set to something other than 1/true/yes
Cleanup ==
  \E keep_captcha_images \in BOOLEAN :
    /\ keep' = IF keep_captcha_images THEN "true" ELSE "false"
    /\ tiles' = FALSE
    /\ png0' = IF keep_captcha_images THEN png0 ELSE FALSE

\* a return inside the try block of line 554
Return(r, sig) ==
  /\ pc' = "done" /\ result' = r /\ signal' = sig
  /\ Cleanup

\* a return before the try block (lines 517-552)
ReturnEarly(r) ==
  /\ pc' = "done" /\ result' = r /\ signal' = "none"
  /\ UNCHANGED files

\* the step goes on at p, having seen o and performed the operations a
Goto(p, o, a) ==
  /\ pc' = p /\ obs' = o /\ acts' = a
  /\ UNCHANGED << result, signal >>

\* line 881: a call of the attempt raises after the operations a; the except
\* clause of the attempt is entered
Raise(a) == Goto("attempt_except", "raise", a)

\* query_selector('#recaptcha-reload-button'), click it if it is there, and
\* go on at p (lines 646-650, 656-660); found and missing name what the
\* step saw
ReloadRequest(p, found, missing) ==
  \E b \in {"btn", "no_btn", "raise"} :
    IF b = "raise" THEN Raise({})
    ELSE IF b = "btn" THEN Goto(p, found, {"reload_click"})
    ELSE Goto(p, missing, {})

\* the attempt loop with `<=` for `<`
AttemptsLeftOffByOne == outer_attempt <= max_attempts

\* line 588: the condition of the attempt loop
AttemptsLeft == outer_attempt < max_attempts

\* the attempt counter is not advanced
NextAttemptStuck == outer_attempt

\* line 589
NextAttempt == outer_attempt + 1

\* the reload loop with `<=` for `<`
ReloadsLeftOneMore == reload_count <= max_reload

\* line 603: the condition of the reload loop
ReloadsLeft == reload_count < max_reload

\* the reload counter is not advanced
NextReloadStuck == reload_count

\* line 604
NextReload == reload_count + 1

\* the sentinel is not tested
IsUnsupportedNever(n) == FALSE

\* line 653
IsUnsupported(n) == n = UNSUPPORTED

\* the test of line 722 is left out
ReloadExhaustedNever == FALSE

\* line 722
ReloadExhausted == reload_count >= max_reload

\* ------------------------------------------------------------------------
\* solve_recaptcha_with_yolo, step by step
\* ------------------------------------------------------------------------

\* lines 517, 535-552: without YOLO the simple click is tried; else the
\* model file is fetched and loaded, and a failure of either returns False
Start ==
  /\ pc = "start"
  /\ \/ /\ ~yolo
        /\ Goto("fallback", "none", {})
        /\ UNCHANGED files
     \/ /\ yolo
        /\ \E loaded \in BOOLEAN :
             IF loaded
             THEN Goto("checkbox", "ok", {}) /\ UNCHANGED files
             ELSE ReturnEarly(FALSE) /\ obs' = "raise" /\ acts' = {}
  /\ UNCHANGED << config, counters, chal, clicks, panelAppeared, geom, ia >>
  /\ challenge_frame' = FrameAfter
  /\ assigned' = AssignedAfter

\* lines 517-533: click the checkbox of an anchor frame, sleep ten seconds
\* and return True; no frame, or every click raising, returns False.  The
\* page is not looked at again: panel says whether a challenge frame came up.
Fallback ==
  /\ pc = "fallback"
  /\ \E done \in BOOLEAN, panel \in BOOLEAN :
       IF done
       THEN /\ ReturnEarly(TRUE)
            /\ obs' = "none" /\ acts' = {"checkbox_click"}
            /\ panelAppeared' = panel
       ELSE /\ ReturnEarly(FALSE)
            /\ obs' = "raise" /\ acts' = {}
            /\ UNCHANGED panelAppeared
  /\ UNCHANGED << config, counters, chal, clicks, geom, ia >>
  /\ challenge_frame' = FrameAfter
  /\ assigned' = AssignedAfter

\* lines 554-570: find the anchor frame and click the checkbox
Checkbox ==
  /\ pc = "checkbox"
  /\ \E o \in {"no_frame", "raise", "ok"} :
       IF o = "ok"
       THEN Goto("await_challenge", o, {"checkbox_click"}) /\ UNCHANGED files
       ELSE Return(FALSE, "none") /\ obs' = o /\ acts' = {}
  /\ UNCHANGED << config, counters, chal, clicks, panelAppeared, geom, ia >>
  /\ challenge_frame' = FrameAfter
  /\ assigned' = AssignedAfter

\* the attempt loop is entered whether a challenge frame came up or not
AwaitChallengeNoSkip ==
  /\ pc = "await_challenge"
  /\ \E o \in {"present", "absent"} :
       /\ Goto("outer_head", o, {}) /\ UNCHANGED files
       /\ panelAppeared' = (o = "present")
       /\ outer_attempt' = 0
  /\ UNCHANGED << config, reload_count, dynamic_rounds, retry_detect, chal,
                  clicks, geom, ia >>
  /\ challenge_frame' = FrameLookedUp
  /\ assigned' = AssignedAfter

\* lines 572-587: no challenge frame after the wait is Success
AwaitChallenge ==
  /\ pc = "await_challenge"
  /\ \E o \in {"present", "absent"} :
       IF o = "absent"
       THEN /\ Return(TRUE, "frame_absent") /\ obs' = o /\ acts' = {}
            /\ UNCHANGED << panelAppeared, outer_attempt >>
       ELSE /\ Goto("outer_head", o, {}) /\ UNCHANGED files
            /\ panelAppeared' = TRUE
            /\ outer_attempt' = 0
  /\ UNCHANGED << config, reload_count, dynamic_rounds, retry_detect, chal,
                  clicks, geom, ia >>
  /\ challenge_frame' = FrameLookedUp
  /\ assigned' = AssignedAfter

\* lines 588-601 and 889-890: the head of the attempt loop.  dynamic_rounds
\* is a local of the dynamic branch, assigned at line 750 before it is read:
\* the value an earlier attempt left in it is dropped here.
OuterHead ==
  /\ pc = "outer_head"
  /\ IF AttemptsLeft
     THEN /\ outer_attempt' = NextAttempt
          /\ captcha_type' = "None" /\ answers' = << >> /\ img_urls' = << >>
          /\ target_num' = UNSUPPORTED
          /\ UNCHANGED << new_img_urls, title_text >>
          /\ reload_count' = 0
          /\ dynamic_rounds' = 0
          /\ clicked' = {} /\ attemptVerify' = FALSE
          /\ Goto("reload_head", "none", {}) /\ UNCHANGED files
          /\ UNCHANGED << k, verifyClicks >>
     ELSE /\ Return(FALSE, "none") /\ obs' = "none" /\ acts' = {}
          /\ UNCHANGED << outer_attempt, reload_count, dynamic_rounds, chal,
                          clicks >>
  /\ UNCHANGED << config, retry_detect, panelAppeared, geom, ia >>
  /\ challenge_frame' = FrameAfter
  /\ assigned' = AssignedAfter

\* lines 603-607: the head of the reload loop
ReloadHead ==
  /\ pc = "reload_head"
  /\ title_text' = << >>
  /\ IF ReloadsLeft
     THEN reload_count' = NextReload /\ Goto("check_passed", "none", {})
     ELSE UNCHANGED reload_count /\ Goto("after_reload", "none", {})
  /\ UNCHANGED << config, outer_attempt, dynamic_rounds, retry_detect, captcha_type, answers, img_urls,
                  target_num, new_img_urls,
                  files, clicks, panelAppeared, geom, ia >>
  /\ challenge_frame' = FrameAfter
  /\ assigned' = AssignedAfter

\* lines 609-623: has the checkbox been confirmed meanwhile?  The query is
\* called with timeout=, which the library may refuse: that, like any other
\* failure of the query, is the answer "raise" of the bare except clause.
CheckPassed ==
  /\ pc = "check_passed"
  /\ \E o \in {"checked", "unchecked", "no_frame", "raise"} :
       IF o = "checked"
       THEN Return(TRUE, "checked") /\ obs' = o /\ acts' = {}
       ELSE Goto("reacquire", o, {}) /\ UNCHANGED files
  /\ UNCHANGED << config, counters, chal, clicks, panelAppeared, geom, ia >>
  /\ challenge_frame' = FrameAfter
  /\ assigned' = AssignedAfter

\* lines 625-634: the challenge frame is looked up again
Reacquire ==
  /\ pc = "reacquire"
  /\ \E o \in {"present", "absent"} :
       IF o = "absent"
       THEN Return(TRUE, "frame_absent") /\ obs' = o /\ acts' = {}
       ELSE Goto("get_target", o, {}) /\ UNCHANGED files
  /\ UNCHANGED << config, counters, chal, clicks, panelAppeared, geom, ia >>
  /\ challenge_frame' = FrameLookedUp
  /\ assigned' = AssignedAfter

\* lines 636-650: read the instruction; a failure asks for a reload
GetTarget ==
  /\ pc = "get_target"
  /\ UNCHANGED << new_img_urls, title_text >>
  /\ \/ \E text \in TargetTexts :
          /\ target_num' = get_target_num_from_text(text)
          /\ Goto("target_check", "ok", {})
     \/ /\ ReloadRequest("reload_head", "no_text_btn", "no_text_no_btn")
        /\ UNCHANGED target_num
  /\ UNCHANGED << config, counters, captcha_type, answers, img_urls, files,
                  clicks, panelAppeared, geom, ia >>
  /\ challenge_frame' = FrameAfter
  /\ assigned' = AssignedAfter

\* lines 652-660: an unsupported target asks for a reload and nothing else
TargetCheck ==
  /\ pc = "target_check"
  /\ IF IsUnsupported(target_num)
     THEN ReloadRequest("reload_head", "btn", "no_btn")
     ELSE Goto("classify", "none", {})
  /\ UNCHANGED << config, counters, chal, files, clicks, panelAppeared,
                  geom, ia >>
  /\ challenge_frame' = FrameAfter
  /\ assigned' = AssignedAfter

\* lines 662-696: title, tile identifiers, variant, grid screenshot, detector
Classify ==
  /\ pc = "classify"
  /\ UNCHANGED new_img_urls
  /\ \/ /\ Raise({})
        /\ title_text' = << >>
        /\ UNCHANGED << captcha_type, answers, img_urls, files >>
     \/ \E title \in TitleTexts, urls \in GridUrls :
          /\ title_text' = title
          /\ img_urls' = urls
          /\ IF urls = << >>
             THEN /\ Goto("reload_head", "no_images", {})
                  /\ UNCHANGED << captcha_type, answers, files >>
             ELSE LET v == classify_variant(title) IN
               \/ \* screenshot_captcha_grid returns False: continue
                  /\ captcha_type' = IF v = "squares" THEN captcha_type ELSE v
                  /\ Goto(AfterNoScreenshot, "no_screenshot",
                          {"classify",
                           IF v = "squares" THEN "grid4" ELSE "grid3"})
                  /\ png0' \in {png0, TRUE}
                  /\ UNCHANGED << answers, tiles, keep >>
               \/ \E raises \in BOOLEAN,
                     dets \in (IF v = "squares" THEN Dets4 ELSE Dets3) :
                    /\ captcha_type' = v
                    /\ png0' = TRUE
                    /\ answers' =
                         IF v = "squares"
                         THEN square_solver(target_num, TRUE, raises, dets)
                         ELSE dynamic_and_selection_solver(target_num, TRUE,
                                                           raises, dets)
                    /\ Goto("accept", "ok",
                            {"classify", "screenshot", "detect",
                             IF v = "squares" THEN "grid4" ELSE "grid3",
                             IF v = "squares" THEN "square_solver"
                             ELSE "dynamic_and_selection_solver"})
                    /\ UNCHANGED << tiles, keep >>
  /\ UNCHANGED << config, counters, target_num, clicks, panelAppeared,
                  geom, ia >>
  /\ challenge_frame' = FrameAfter
  /\ assigned' = AssignedAfter

\* lines 698-719: break with an accepted answer set, else reload and wait
Accept ==
  /\ pc = "accept"
  /\ title_text' = << >>
  /\ IF Accepted(captcha_type, answers)
     THEN Goto("after_reload", "accepted", {})
     ELSE \E b \in {"btn", "no_btn", "raise"}, w \in {"ok", "raise"} :
            LET a == IF b = "btn" THEN {"reload_click"} ELSE {} IN
            IF b = "raise" THEN Raise({})
            ELSE IF w = "raise" THEN Raise(a)
            ELSE Goto("reload_head",
                      IF b = "btn" THEN "rejected_btn" ELSE "rejected_no_btn",
                      a)
  /\ UNCHANGED << config, counters, captcha_type, answers, img_urls,
                  target_num, new_img_urls, files, clicks, panelAppeared,
                  geom, ia >>
  /\ challenge_frame' = FrameAfter
  /\ assigned' = AssignedAfter

\* lines 721-727, 825: an exhausted reload budget skips the attempt, also
\* when the last iteration left the loop by break ("abandoned")
AfterReload ==
  /\ pc = "after_reload"
  /\ IF ReloadExhausted
     THEN Goto("outer_head",
               IF obs = "accepted" THEN "abandoned" ELSE "exhausted", {})
     ELSE IF captcha_type \in {"dynamic", "selection", "squares"}
     THEN Goto("wait_grid", "none", {})
     ELSE Goto("verify", "none", {})
  /\ UNCHANGED << config, counters, chal, files, clicks, panelAppeared,
                  geom, ia >>
  /\ challenge_frame' = FrameAfter
  /\ assigned' = AssignedAfter

\* every variant goes into the dynamic loop
AfterFirstBatchAlways == "dyn_head"

\* where the solver goes on after the first batch of clicks
AfterFirstBatch == IF captcha_type = "dynamic" THEN "dyn_head" ELSE "verify"

\* lines 732 and 829: wait until the first cell is visible; a `for` over an
\* empty list is through at once
WaitGrid ==
  /\ pc = "wait_grid"
  /\ \/ /\ Raise({})
        /\ UNCHANGED << k, clicked, dynamic_rounds >>
     \/ /\ Len(answers) >= 1
        /\ Goto("clicking", "ok", {}) /\ k' = 1 /\ clicked' = {}
        /\ UNCHANGED dynamic_rounds
     \/ /\ Len(answers) = 0
        /\ Goto(AfterFirstBatch, "ok", {}) /\ k' = 0 /\ clicked' = {}
        /\ dynamic_rounds' = IF pc' = "dyn_head" THEN 0 ELSE dynamic_rounds
  /\ UNCHANGED << config, outer_attempt, reload_count, retry_detect, chal,
                  files, attemptVerify, verifyClicks, panelAppeared, geom, ia >>
  /\ challenge_frame' = FrameAfter
  /\ assigned' = AssignedAfter

\* One turn of `for answer in answers` (lines 734-747, 810-820, 831-841):
\* the click, or the JavaScript click of the except clause, which is skipped
\* when the cell is not found and whose own failure is not caught.  The loop
\* goes on at `after` when the list is through.
ClickCell(after) ==
  \E o \in {"click", "js_click", "no_cell", "raise"} :
    IF o = "raise"
    THEN Raise({}) /\ k' = 0 /\ UNCHANGED clicked
    ELSE /\ k' = IF k < Len(answers) THEN k + 1 ELSE 0
         /\ clicked' = IF o = "no_cell" THEN clicked
                       ELSE clicked \cup {answers[k]}
         /\ Goto(IF k < Len(answers) THEN pc ELSE after, o,
                 IF o = "no_cell" THEN {} ELSE {"grid_click"})

\* lines 727-751 and 825-841: the first batch of clicks; a dynamic challenge
\* goes on to its loop with dynamic_rounds = 0
Clicking ==
  /\ pc = "clicking"
  /\ k \in 1..Len(answers)
  /\ ClickCell(AfterFirstBatch)
  /\ dynamic_rounds' = IF pc' = "dyn_head" THEN 0 ELSE dynamic_rounds
  /\ UNCHANGED << config, outer_attempt, reload_count, retry_detect, chal,
                  files, attemptVerify, verifyClicks, panelAppeared, geom, ia >>
  /\ challenge_frame' = FrameAfter
  /\ assigned' = AssignedAfter

\* lines 753-761: the head of the dynamic loop
DynHead ==
  /\ pc = "dyn_head"
  /\ IF dynamic_rounds < max_dynamic_rounds
     THEN /\ dynamic_rounds' = dynamic_rounds + 1
          /\ retry_detect' = 0
          /\ Goto("poll", "none", {})
     ELSE /\ Goto("verify", "none", {})
          /\ UNCHANGED << dynamic_rounds, retry_detect >>
  /\ clicked' = {}
  /\ UNCHANGED << config, outer_attempt, reload_count, chal, files, k,
                  attemptVerify, verifyClicks, panelAppeared, geom, ia >>
  /\ challenge_frame' = FrameAfter
  /\ assigned' = AssignedAfter

\* lines 762-786: one poll of the tile identifiers, and the loop condition
\* and the test of is_new that follow it.  retry_detect and new_img_urls are
\* local to one round (lines 761 and 765 set them again): retry_detect is
\* dropped with the polling, new_img_urls by the step that follows it.
Poll ==
  /\ pc = "poll"
  /\ UNCHANGED title_text
  /\ \/ /\ Raise({})
        /\ retry_detect' = 0 /\ new_img_urls' = << >>
        /\ UNCHANGED img_urls
     \/ \E urls \in UrlLists :
          LET is_new == NewContent(answers, urls, before_img_urls)
              again  == PollAgain(retry_detect + 1, is_new)
          IN /\ new_img_urls' = urls
             /\ retry_detect' = IF again THEN retry_detect + 1 ELSE 0
             /\ img_urls' = IF is_new THEN urls ELSE img_urls
             /\ Goto(IF is_new THEN "refresh"
                     ELSE IF again THEN "poll" ELSE "verify",
                     IF is_new THEN "new" ELSE "same", {})
  /\ UNCHANGED << config, outer_attempt, reload_count, dynamic_rounds,
                  captcha_type, answers, target_num, files, clicks,
                  panelAppeared, geom, ia >>
  /\ challenge_frame' = FrameAfter
  /\ assigned' = AssignedAfter

\* lines 788-823: screenshot the answered tiles, paste them into 0.png (on a
\* failure screenshot the grid instead), detect again
\* an empty re-detection starts the next round
AfterRedetectNextRound(ans) ==
  IF Len(ans) >= 1 THEN "dyn_clicking" ELSE "dyn_head"

\* lines 807-823: the cells of a non-empty re-detection are clicked, an
\* empty one leaves the dynamic loop by break
AfterRedetect(ans) == IF Len(ans) >= 1 THEN "dyn_clicking" ELSE "verify"

Refresh ==
  /\ pc = "refresh"
  /\ UNCHANGED title_text
  /\ \E shot \in BOOLEAN, pasted \in BOOLEAN, grid \in BOOLEAN,
        raises \in BOOLEAN, dets \in Dets3 :
       /\ pasted => png0 /\ (tiles \/ shot)
       /\ tiles' = (tiles \/ shot)
       /\ png0' = (png0 \/ (~pasted /\ grid))
       /\ answers' = dynamic_and_selection_solver(target_num, png0',
                                                  raises, dets)
       /\ k' = IF Len(answers') >= 1 THEN 1 ELSE 0
       /\ new_img_urls' = << >>
       /\ Goto(AfterRedetect(answers'),
               IF pasted THEN "pasted" ELSE "not_pasted",
               {"tile_screenshot", "detect"}
                 \cup (IF pasted THEN {} ELSE {"screenshot"}))
  /\ UNCHANGED << config, counters, captcha_type, img_urls, target_num, keep,
                  clicked, attemptVerify, verifyClicks, panelAppeared,
                  geom, ia >>
  /\ challenge_frame' = FrameAfter
  /\ assigned' = AssignedAfter

\* lines 808-820: the clicks of a dynamic round
DynClicking ==
  /\ pc = "dyn_clicking"
  /\ k \in 1..Len(answers)
  /\ ClickCell("dyn_head")
  /\ UNCHANGED << config, counters, chal, files, attemptVerify, verifyClicks,
                  panelAppeared, geom, ia >>
  /\ challenge_frame' = FrameAfter
  /\ assigned' = AssignedAfter

\* lines 843-850: click the verify button if it is there
Verify ==
  /\ pc = "verify"
  /\ UNCHANGED title_text
  /\ \E b \in {"btn", "no_btn", "raise"} :
       IF b = "raise"
       THEN Raise({}) /\ UNCHANGED << attemptVerify, verifyClicks >>
       ELSE IF b = "btn"
       THEN /\ Goto("check_verified", b, {"verify_click"})
            /\ attemptVerify' = TRUE
            /\ verifyClicks' = verifyClicks + 1
       ELSE /\ Goto("check_verified", b, {})
            /\ UNCHANGED << attemptVerify, verifyClicks >>
  /\ clicked' = {} /\ new_img_urls' = << >>
  /\ UNCHANGED << config, counters, captcha_type, answers, img_urls,
                  target_num, files, k, panelAppeared, geom, ia >>
  /\ challenge_frame' = FrameAfter
  /\ assigned' = AssignedAfter

\* lines 859-864: the answer of the checkbox query that means Success
VerifiedByCheckbox(o) == o = "checked"

\* the second signal is never taken
VerifiedByAbsenceNever(o) == FALSE

\* lines 869-877: the answer of the frame lookup that means Success
VerifiedByAbsence(o) == o = "absent"

\* lines 852-866: first signal, the checkbox is confirmed
CheckVerified ==
  /\ pc = "check_verified"
  /\ \E o \in {"checked", "unchecked", "no_frame", "raise"} :
       IF VerifiedByCheckbox(o)
       THEN /\ Return(TRUE, IF o = "checked" THEN "checked" ELSE "none")
            /\ obs' = o /\ acts' = {}
       ELSE Goto("check_gone", o, {}) /\ UNCHANGED files
  /\ UNCHANGED << config, counters, chal, clicks, panelAppeared, geom, ia >>
  /\ challenge_frame' = FrameAfter
  /\ assigned' = AssignedAfter

\* lines 868-879: second signal, the challenge frame is gone
CheckGone ==
  /\ pc = "check_gone"
  /\ \E o \in {"present", "absent"} :
       IF VerifiedByAbsence(o)
       THEN /\ Return(TRUE, IF o = "absent" THEN "frame_absent" ELSE "none")
            /\ obs' = o /\ acts' = {}
       ELSE Goto("outer_head", o, {}) /\ UNCHANGED files
  /\ UNCHANGED << config, counters, chal, clicks, panelAppeared, geom, ia >>
  /\ challenge_frame' = FrameLookedUp
  /\ assigned' = AssignedAfter

\* lines 881-887: the attempt raised; the last attempt returns False
\* the except clause gives the call up, whatever the attempt
AttemptExceptGiveUp ==
  /\ pc = "attempt_except"
  /\ Return(FALSE, "none") /\ obs' = "none" /\ acts' = {}
  /\ UNCHANGED << config, counters, chal, clicks, panelAppeared, geom, ia >>
  /\ challenge_frame' = FrameAfter
  /\ assigned' = AssignedAfter

AttemptExcept ==
  /\ pc = "attempt_except"
  /\ IF outer_attempt >= max_attempts
     THEN Return(FALSE, "none") /\ obs' = "none" /\ acts' = {}
     ELSE Goto("outer_head", "none", {}) /\ UNCHANGED files
  /\ UNCHANGED << config, counters, chal, clicks, panelAppeared, geom, ia >>
  /\ challenge_frame' = FrameAfter
  /\ assigned' = AssignedAfter


\* ------------------------------------------------------------------------
\* solve_recaptcha_ia (host2play_auto_renew_ci_selenium.py), step by step
\* ------------------------------------------------------------------------

\* a return of solve_recaptcha_ia: there is no finally clause, the files
\* stay as the step left them
IAReturn(r, sig) == pc' = "done" /\ result' = r /\ signal' = sig

\* lines 484-486: an exception outside the check of lines 451-481
IAFail(a) == IAReturn(FALSE, "none") /\ obs' = "raise" /\ acts' = a

\* the reload button found at line 350 is clicked; the click may raise
IAReload(a) ==
  \E o \in {"ok", "raise"} :
    IF o = "ok" THEN Goto("ia_reload_head", "btn", a \cup {"reload_click"})
    ELSE IAFail(a)

\* lines 326-331
IAStart ==
  /\ pc = "ia_start"
  /\ \E o \in {"ok", "raise"} :
       IF o = "ok"
       THEN Goto("ia_await", o, {"checkbox_click"})
       ELSE IAFail({})
  /\ UNCHANGED << config, counters, files,
                  chal, clicks, panelAppeared, geom, ia >>
  /\ UNCHANGED challenge_frame
  /\ UNCHANGED assigned
  /\ UNCHANGED aux

\* lines 333-337: the challenge frame is waited for; a timeout raises
IAAwait ==
  /\ pc = "ia_await"
  /\ \E o \in {"present", "timeout"} :
       IF o = "present"
       THEN /\ Goto("ia_outer", o, {})
            /\ panelAppeared' = TRUE
            /\ attempt' = 0
       ELSE IAFail({}) /\ UNCHANGED << panelAppeared, attempt >>
  /\ UNCHANGED << config, counters, files,
                  chal, clicks, reload_attempts, captcha,
                  geom >>
  /\ UNCHANGED challenge_frame
  /\ UNCHANGED assigned
  /\ UNCHANGED aux

\* lines 338-345 and 483.  target_num is assigned at line 357 before it is
\* read: the value of an earlier attempt is dropped here.
IAOuter ==
  /\ pc = "ia_outer"
  /\ UNCHANGED << new_img_urls, title_text >>
  /\ IF attempt < max_attempts
     THEN /\ attempt' = attempt + 1
          /\ reload_attempts' = 0 /\ captcha' = "None" /\ answers' = << >>
          /\ target_num' = UNSUPPORTED
          /\ clicked' = {} /\ attemptVerify' = FALSE
          /\ Goto("ia_reload_head", "none", {})
     ELSE /\ IAReturn(FALSE, "none") /\ obs' = "none" /\ acts' = {}
          /\ UNCHANGED << ia, answers, target_num, clicked, attemptVerify >>
  /\ UNCHANGED << config, counters, files,
                  captcha_type, img_urls, k, verifyClicks,
                  panelAppeared, geom >>
  /\ UNCHANGED challenge_frame
  /\ UNCHANGED assigned
  /\ UNCHANGED aux

\* lines 347-355
IAReloadHead ==
  /\ pc = "ia_reload_head"
  /\ title_text' = << >>
  /\ IF reload_attempts < max_reload_attempts
     THEN /\ reload_attempts' = reload_attempts + 1
          /\ \E o \in {"ok", "timeout"} :
               Goto(IF o = "ok" THEN "ia_get_target" ELSE "ia_reload_head",
                    o, {})
     ELSE UNCHANGED reload_attempts /\ Goto("ia_after_reload", "none", {})
  /\ UNCHANGED << config, counters, captcha_type, answers, img_urls,
                  target_num, new_img_urls, files, clicks, panelAppeared,
                  attempt, captcha, geom >>
  /\ UNCHANGED challenge_frame
  /\ UNCHANGED assigned
  /\ UNCHANGED aux

\* lines 357-358: the instruction, and the text of the title (used by
\* IAClassify), whose read may raise
IAGetTarget ==
  /\ pc = "ia_get_target"
  /\ UNCHANGED << new_img_urls, title_text >>
  /\ \E readable \in BOOLEAN, text \in TargetTexts, title \in {"ok", "raise"} :
       /\ ~readable => text = << >>
       /\ IF title = "raise"
          THEN IAFail({}) /\ UNCHANGED target_num
          ELSE /\ target_num' = get_target_num(readable, text)
               /\ Goto("ia_target_check", "ok", {})
  /\ UNCHANGED << config, counters, files,
                  captcha_type, answers, img_urls, clicks,
                  panelAppeared, geom, ia >>
  /\ UNCHANGED challenge_frame
  /\ UNCHANGED assigned
  /\ UNCHANGED aux

\* lines 360-365
IATargetCheck ==
  /\ pc = "ia_target_check"
  /\ IF IsUnsupported(target_num)
     THEN IAReload({})
     ELSE Goto("ia_classify", "none", {})
  /\ UNCHANGED << config, counters, chal, files, clicks, panelAppeared,
                  geom, ia >>
  /\ UNCHANGED challenge_frame
  /\ UNCHANGED assigned
  /\ UNCHANGED aux

\* lines 367-418: variant, grid screenshot, detector, acceptance
IAClassify ==
  /\ pc = "ia_classify"
  /\ UNCHANGED new_img_urls
  /\ \E title \in TitleTexts :
       LET v == classify_variant(title)
           used == {"classify", IF v = "squares" THEN "grid4" ELSE "grid3"}
           solved == used \cup {"screenshot", "detect",
                                IF v = "squares" THEN "square_solver"
                                ELSE "dynamic_and_selection_solver"}
       IN
       /\ title_text' = title
       /\ \/ \* screenshot_grid returns False
             /\ png0' \in {png0, TRUE}
             /\ IAReload(used)
             /\ UNCHANGED << answers, captcha >>
          \/ \E raises \in BOOLEAN,
             dets \in (IF v = "squares" THEN Dets4 ELSE Dets3) :
            /\ png0' = TRUE
            /\ answers' =
                 IF v = "squares"
                 THEN square_solver(target_num, TRUE, raises, dets)
                 ELSE dynamic_and_selection_solver(target_num, TRUE,
                                                   raises, dets)
            /\ IF Accepted(v, answers')
               THEN /\ captcha' = v
                    /\ Goto("ia_after_reload", "accepted", solved)
               ELSE /\ UNCHANGED captcha
                    /\ IAReload(solved)
  /\ UNCHANGED << config, counters, captcha_type, img_urls, target_num,
                  tiles, keep, clicks, panelAppeared, attempt,
                  reload_attempts, geom >>
  /\ UNCHANGED challenge_frame
  /\ UNCHANGED assigned
  /\ UNCHANGED aux

\* lines 420-424
IAAfterReload ==
  /\ pc = "ia_after_reload"
  /\ title_text' = << >>
  /\ IF captcha = "None"
     THEN Goto("ia_outer", "none", {}) /\ UNCHANGED k
     ELSE IF Len(answers) >= 1
     THEN Goto("ia_clicking", "none", {}) /\ k' = 1
     ELSE Goto("ia_verify", "none", {}) /\ UNCHANGED k
  /\ UNCHANGED << config, counters, captcha_type, answers, img_urls,
                  target_num, new_img_urls, files, clicked, attemptVerify,
                  verifyClicks, panelAppeared, geom, ia >>
  /\ UNCHANGED challenge_frame
  /\ UNCHANGED assigned
  /\ UNCHANGED aux

\* lines 425-441: one click of the loop; a cell that is not clickable in
\* ten seconds raises
IAClicking ==
  /\ pc = "ia_clicking"
  /\ k \in 1..Len(answers)
  /\ \E o \in {"click", "raise"} :
       IF o = "raise"
       THEN IAFail({}) /\ k' = 0 /\ UNCHANGED clicked
       ELSE /\ k' = IF k < Len(answers) THEN k + 1 ELSE 0
            /\ clicked' = clicked \cup {answers[k]}
            /\ Goto(IF k < Len(answers) THEN pc ELSE "ia_verify", o,
                    {"grid_click"})
           
  /\ UNCHANGED << config, counters, files, chal, attemptVerify, verifyClicks,
                  panelAppeared, geom, ia >>
  /\ UNCHANGED challenge_frame
  /\ UNCHANGED assigned
  /\ UNCHANGED aux

\* lines 443-448
IAVerify ==
  /\ pc = "ia_verify"
  /\ \E o \in {"btn", "raise"} :
       IF o = "raise"
       THEN IAFail({}) /\ UNCHANGED << attemptVerify, verifyClicks >>
       ELSE /\ Goto("ia_check_verified", o, {"verify_click"})
            /\ attemptVerify' = TRUE
            /\ verifyClicks' = verifyClicks + 1
           
  /\ clicked' = {}
  /\ UNCHANGED << config, counters, files, chal, k, panelAppeared, geom, ia >>
  /\ UNCHANGED challenge_frame
  /\ UNCHANGED assigned
  /\ UNCHANGED aux

\* lines 451-462: switch_to.default_content raising reaches the except
\* clause of line 478, which returns True
IACheckVerified ==
  /\ pc = "ia_check_verified"
  /\ \E o \in {"checked", "unchecked", "raise"} :
       IF o = "checked" THEN IAReturn(TRUE, "checked") /\ obs' = o /\ acts' = {}
       ELSE IF o = "raise" THEN IAReturn(TRUE, "none") /\ obs' = o /\ acts' = {}
       ELSE Goto("ia_check_gone", o, {})
  /\ UNCHANGED << config, counters, files,
                  chal, clicks, panelAppeared, geom, ia >>
  /\ UNCHANGED challenge_frame
  /\ UNCHANGED assigned
  /\ UNCHANGED aux

\* lines 464-472: a frame that is hidden or not found is Success, and so is
\* any other exception of find_element or is_displayed
IACheckGone ==
  /\ pc = "ia_check_gone"
  /\ \E o \in {"displayed", "hidden", "missing", "raise"} :
       IF o \in {"hidden", "missing"}
       THEN IAReturn(TRUE, "frame_absent") /\ obs' = o /\ acts' = {}
       ELSE IF o = "raise"
       THEN IAReturn(TRUE, "none") /\ obs' = o /\ acts' = {}
       ELSE Goto("ia_relocate", o, {})
  /\ UNCHANGED << config, counters, files,
                  chal, clicks, panelAppeared, geom, ia >>
  /\ UNCHANGED challenge_frame
  /\ UNCHANGED assigned
  /\ UNCHANGED aux

\* lines 474-481: the frame is entered again; a failure returns True
IARelocate ==
  /\ pc = "ia_relocate"
  /\ \E o \in {"ok", "raise"} :
       IF o = "ok" THEN Goto("ia_outer", o, {})
       ELSE IAReturn(TRUE, "none") /\ obs' = o /\ acts' = {}
  /\ UNCHANGED << config, counters, files,
                  chal, clicks, panelAppeared, geom, ia >>
  /\ UNCHANGED challenge_frame
  /\ UNCHANGED assigned
  /\ UNCHANGED aux

Next ==
  \/ Start \/ Fallback \/ Checkbox \/ AwaitChallenge
  \/ OuterHead \/ ReloadHead \/ CheckPassed \/ Reacquire \/ GetTarget
  \/ TargetCheck \/ Classify \/ Accept \/ AfterReload
  \/ WaitGrid \/ Clicking \/ DynHead \/ Poll \/ Refresh \/ DynClicking
  \/ Verify \/ CheckVerified \/ CheckGone \/ AttemptExcept
  \/ IAStart \/ IAAwait \/ IAOuter \/ IAReloadHead \/ IAGetTarget
  \/ IATargetCheck \/ IAClassify \/ IAAfterReload \/ IAClicking
  \/ IAVerify \/ IACheckVerified \/ IACheckGone \/ IARelocate

Spec == Init /\ [][Next]_vars

\* Every step is a bounded wait, a bounded sleep or a computation: the call
\* keeps going until it returns.
FairSpec == Spec /\ WF_vars(Next)

\* ------------------------------------------------------------------------
\* The two solvers as pure functions: an input is drawn, a solver is applied
\* ------------------------------------------------------------------------

\* integer pixel coordinates: the edges of both images, the band limits of
\* the 4x4 grid and points inside the tiles
GeomCoords == {0, 50, 100, 112, 113, 225, 250, 300, 337, 338, 450}

\* xyxy boxes: x1 <= x2 and y1 <= y2
GeomBoxes ==
  { Det(c, a, b, d, e) : c \in {1, 2},
                         a \in GeomCoords, b \in GeomCoords,
                         d \in GeomCoords, e \in GeomCoords }

GeomSecond == { Det(1, 0, 0, 50, 50), Det(2, 250, 250, 300, 300) }

\* detector outputs of at most two boxes
GeomDets ==
  LET first == { b \in GeomBoxes : b.x1 <= b.x2 /\ b.y1 <= b.y2 }
  IN { << >> } \cup { << d >> : d \in first }
               \cup { << d, e >> : d \in first, e \in GeomSecond }

\* the solver call itself is at rest while a pure function is applied
SolverIdle ==
  /\ pc = "geom" /\ result = "none" /\ signal = "none"
  /\ yolo = TRUE /\ keep = "unread" /\ max_attempts = 1
  /\ outer_attempt = 0 /\ reload_count = 0
  /\ dynamic_rounds = 0 /\ retry_detect = 0
  /\ captcha_type = "None" /\ answers = << >> /\ img_urls = << >>
  /\ target_num = UNSUPPORTED /\ new_img_urls = << >>
  /\ title_text = << >>
  /\ png0 = FALSE /\ tiles = FALSE
  /\ k = 0 /\ clicked = {} /\ attemptVerify = FALSE /\ verifyClicks = 0
  /\ panelAppeared = FALSE /\ obs = "none" /\ acts = {}
  /\ challenge_frame = "None"
  /\ assigned = {}
  /\ attempt = 0 /\ reload_attempts = 0 /\ captcha = "None"

GeomInit ==
  /\ SolverIdle
  /\ gphase = "input" /\ gtarget = 1
  /\ gexists \in BOOLEAN /\ graises \in BOOLEAN
  /\ gdets \in GeomDets
  /\ gout = << >>
  /\ gtext = << >> /\ gnum = 0
  /\ grun1 = NoRun /\ grun2 = NoRun
  /\ AuxOff

Solve3x3 ==
  /\ gphase = "input"
  /\ gphase' = "out3"
  /\ gout' = dynamic_and_selection_solver(gtarget, gexists, graises, gdets)
  /\ UNCHANGED << ctrl, config, counters, chal, files, clicks, panelAppeared,
                  obs, acts, ia, gtarget, gexists, graises, gdets,
                  gtext, gnum, grun1, grun2 >>
  /\ UNCHANGED challenge_frame
  /\ UNCHANGED assigned
  /\ UNCHANGED aux

Solve4x4 ==
  /\ gphase = "input"
  /\ gphase' = "out4"
  /\ gout' = square_solver(gtarget, gexists, graises, gdets)
  /\ UNCHANGED << ctrl, config, counters, chal, files, clicks, panelAppeared,
                  obs, acts, ia, gtarget, gexists, graises, gdets,
                  gtext, gnum, grun1, grun2 >>
  /\ UNCHANGED challenge_frame
  /\ UNCHANGED assigned
  /\ UNCHANGED aux

\* lines 351-374 for one sample point: the first corner of the first box
MapPoint ==
  /\ gphase = "input" /\ Len(gdets) >= 1
  /\ gphase' = "point"
  /\ gout' = PointCells(gdets[1].x1, gdets[1].y1)
  /\ UNCHANGED << ctrl, config, counters, chal, files, clicks, panelAppeared,
                  obs, acts, ia, gtarget, gexists, graises, gdets,
                  gtext, gnum, grun1, grun2 >>
  /\ UNCHANGED challenge_frame
  /\ UNCHANGED assigned
  /\ UNCHANGED aux

GeomNext == Solve3x3 \/ Solve4x4 \/ MapPoint

SpecGeom == GeomInit /\ [][GeomNext]_vars

\* ------------------------------------------------------------------------
\* The target resolvers applied to instruction texts
\* ------------------------------------------------------------------------

\* longest instruction text, in tokens
MaxTextLen == 2

\* the keywords of the table and a word that is none of them
TextWords ==
  {"bicycle", "bus", "boat", "car", "hydrant", "motorcycle", "traffic",
   "stairs"}

\* texts of '#rc-imageselect strong'
Texts ==
  UNION { [1..n -> { Tok(w, c) : w \in TextWords, c \in BOOLEAN }] :
            n \in 0..MaxTextLen }

TextInit ==
  /\ SolverIdle
  /\ gphase = "text" /\ gtarget = 0 /\ gexists = FALSE /\ graises = FALSE
  /\ gdets = << >> /\ gout = << >>
  /\ gtext \in Texts /\ gnum = 0
  /\ grun1 = NoRun /\ grun2 = NoRun
  /\ AuxOff

\* host2play_auto_renew.py, get_target_num_from_text(text)
ResolveText ==
  /\ gphase = "text"
  /\ gphase' = "num"
  /\ gnum' = get_target_num_from_text(gtext)
  /\ UNCHANGED << ctrl, config, counters, chal, files, clicks, panelAppeared,
                  obs, acts, ia, gtarget, gexists, graises, gdets, gout,
                  gtext, grun1, grun2 >>
  /\ UNCHANGED challenge_frame
  /\ UNCHANGED assigned
  /\ UNCHANGED aux

\* host2play_auto_renew_ci_selenium.py, get_target_num(driver): the text is
\* read from the page, which may fail
ResolveDriver ==
  /\ gphase = "text"
  /\ \E readable \in BOOLEAN :
       /\ gphase' = IF readable THEN "num" ELSE "unreadable"
       /\ gnum' = get_target_num(readable, gtext)
  /\ UNCHANGED << ctrl, config, counters, chal, files, clicks, panelAppeared,
                  obs, acts, ia, gtarget, gexists, graises, gdets, gout,
                  gtext, grun1, grun2 >>
  /\ UNCHANGED challenge_frame
  /\ UNCHANGED assigned
  /\ UNCHANGED aux

TextNext == ResolveText \/ ResolveDriver

SpecText == TextInit /\ [][TextNext]_vars

\* ------------------------------------------------------------------------
\* The classification and mapping steps run twice on the same inputs
\* ------------------------------------------------------------------------

\* lines 638-696 as a function of what the page and the detector give: the
\* target of the instruction, the variant of the panel text, the answers
\* of the solver of the variant; an unsupported target is not classified
RunOnce(text, title, exists0, raises, dets) ==
  LET num == get_target_num_from_text(text)
      v   == classify_variant(title)
  IN IF num = UNSUPPORTED THEN [NoRun EXCEPT !.target_num = num]
     ELSE [target_num |-> num, captcha_type |-> v,
           answers |-> IF v = "squares"
                       THEN square_solver(num, exists0, raises, dets)
                       ELSE dynamic_and_selection_solver(num, exists0,
                                                         raises, dets)]

\* the inputs are frozen: instruction, panel text, 0.png, detector output;
\* the counters and the answers of an earlier round are what a call may
\* find in the locals of solve_recaptcha_with_yolo
RerunInit ==
  /\ pc = "geom" /\ result = "none" /\ signal = "none"
  /\ yolo = TRUE /\ keep = "unread" /\ max_attempts = 1
  /\ outer_attempt = 1 /\ reload_count \in {1, 3}
  /\ dynamic_rounds = 0 /\ retry_detect = 0
  /\ captcha_type = "None" /\ answers \in { << >>, << 1 >> }
  /\ img_urls = << >> /\ target_num = UNSUPPORTED /\ new_img_urls = << >>
  /\ title_text \in TitleTexts
  /\ png0 = FALSE /\ tiles = FALSE
  /\ k = 0 /\ clicked = {} /\ attemptVerify = FALSE /\ verifyClicks = 0
  /\ panelAppeared = FALSE /\ obs = "none" /\ acts = {}
  /\ challenge_frame = "None"
  /\ assigned = {}
  /\ attempt = 0 /\ reload_attempts = 0 /\ captcha = "None"
  /\ gphase = "frozen" /\ gtarget = 0
  /\ gexists \in BOOLEAN /\ graises \in BOOLEAN
  /\ gdets \in Dets3 \cup Dets4
  /\ gout = << >> /\ gtext \in TargetTexts /\ gnum = 0
  /\ grun1 = NoRun /\ grun2 = NoRun
  /\ AuxOff

\* the first run; its results go into the locals of the caller
FirstRun ==
  /\ gphase = "frozen"
  /\ gphase' = "run1"
  /\ grun1' = RunOnce(gtext, title_text, gexists, graises, gdets)
  /\ target_num' = grun1'.target_num
  /\ captcha_type' = grun1'.captcha_type
  /\ answers' = grun1'.answers
  /\ UNCHANGED << ctrl, config, counters, img_urls, new_img_urls, title_text,
                  files, clicks, panelAppeared, obs, acts, ia, gtarget,
                  gexists, graises, gdets, gout, gtext, gnum, grun2 >>
  /\ UNCHANGED challenge_frame
  /\ UNCHANGED assigned
  /\ UNCHANGED aux

\* the second run finds the locals as the first run left them
SecondRunWithMemory ==
  /\ gphase = "run1"
  /\ gphase' = "run2"
  /\ reload_count' = reload_count + 1
  /\ LET r == RunOnce(gtext, title_text, gexists, graises, gdets)
     IN grun2' = [r EXCEPT !.answers =
                    SelectSeq(r.answers, LAMBDA a : a \notin Range(answers))]
  /\ UNCHANGED << ctrl, config, outer_attempt, dynamic_rounds, retry_detect,
                  chal, files, clicks, panelAppeared, obs, acts, ia, gtarget,
                  gexists, graises, gdets, gout, gtext, gnum, grun1 >>
  /\ UNCHANGED challenge_frame
  /\ UNCHANGED assigned
  /\ UNCHANGED aux

\* the second run, in the next iteration of the reload loop
SecondRun ==
  /\ gphase = "run1"
  /\ gphase' = "run2"
  /\ reload_count' = reload_count + 1
  /\ grun2' = RunOnce(gtext, title_text, gexists, graises, gdets)
  /\ UNCHANGED << ctrl, config, outer_attempt, dynamic_rounds, retry_detect,
                  chal, files, clicks, panelAppeared, obs, acts, ia, gtarget,
                  gexists, graises, gdets, gout, gtext, gnum, grun1 >>
  /\ UNCHANGED challenge_frame
  /\ UNCHANGED assigned
  /\ UNCHANGED aux

RerunNext == FirstRun \/ SecondRun

SpecRerun == RerunInit /\ [][RerunNext]_vars

\* ------------------------------------------------------------------------
\* main of host2play_auto_renew.py (lines 955-1187).  A notification is a
\* call of send_telegram_message; the solver is called once and returns
\* True or False.
\* ------------------------------------------------------------------------

\* cfg: RENEW_URL is set
MainInit ==
  /\ SolverIdle
  /\ gphase = "main" /\ gtarget = 0 /\ gexists \in BOOLEAN
  /\ graises = FALSE /\ gdets = << >> /\ gout = << >>
  /\ gtext = << >> /\ gnum = 0
  /\ grun1 = NoRun /\ grun2 = NoRun
  /\ mpc = "begin" /\ recaptcha_success = "none" /\ notified = {}
  /\ modal_clicked = FALSE /\ page_text = << >> /\ raised = FALSE
  /\ DownloadOff /\ gvertices = << >> /\ PasteOff

RENEW_URL == gexists

\* what the final page may show; "xuqi" and "chenggong" stand for the two
\* Chinese markers, which have no upper case
PageWords == {"success", "renewed", "xuqi", "chenggong", "error"}

PageTexts ==
  UNION { [1..n -> { Tok(w, c) : w \in PageWords, c \in BOOLEAN }] :
            n \in 0..2 }

\* every page passes
no_success_text_never(text) == FALSE

\* line 1139: none of the markers is in the text; the English markers are
\* looked for in the lower-cased text, the Chinese ones in the text itself
no_success_text(text) ==
  /\ ~Contains("success", lower(text))
  /\ ~Contains("renewed", lower(text))
  /\ ~Contains("xuqi", text) /\ ~Contains("chenggong", text)

MainFrame ==
  UNCHANGED << ctrl, config, counters, chal, files, clicks, panelAppeared,
               challenge_frame, assigned, obs, acts, ia, gphase, gtarget,
               gexists, graises, gdets, gout, gtext, gnum, grun1, grun2 >>

MainGoto(p, n) ==
  /\ mpc' = p /\ notified' = notified \cup n
  /\ MainFrame
  /\ UNCHANGED << dlv, gvertices, pastev >>

\* lines 957-984: without RENEW_URL main returns before anything is sent
MainBegin ==
  /\ mpc = "begin"
  /\ IF RENEW_URL THEN MainGoto("load", {"start"}) ELSE MainGoto("end", {})
  /\ UNCHANGED << recaptcha_success, modal_clicked, page_text, raised >>

\* lines 1005-1037: the page is loaded and the first screenshot taken
MainLoad ==
  /\ mpc = "load"
  /\ \E o \in {"ok", "raise"} :
       MainGoto(IF o = "ok" THEN "renew" ELSE "except", {})
  /\ UNCHANGED << recaptcha_success, modal_clicked, page_text, raised >>

\* lines 1040-1083: the Renew button is looked for and clicked
MainRenew ==
  /\ mpc = "renew"
  /\ \E o \in {"clicked", "no_button", "raise"} :
       IF o = "clicked" THEN MainGoto("solve", {})
       ELSE IF o = "no_button" THEN MainGoto("end", {"failure"})
       ELSE MainGoto("except", {})
  /\ UNCHANGED << recaptcha_success, modal_clicked, page_text, raised >>

\* lines 1086-1101: the solver is called; on False a screenshot is taken,
\* the failure is notified and main returns.  The call itself can raise:
\* download_yolo_model (line 538) runs before the try block of the solver.
MainSolve ==
  /\ mpc = "solve"
  /\ \/ \E r \in BOOLEAN, shot \in {"ok", "raise"} :
          /\ recaptcha_success' = IF r THEN "True" ELSE "False"
          /\ IF r THEN MainGoto("modal", {})
             ELSE IF shot = "ok" THEN MainGoto("end", {"failure"})
             ELSE MainGoto("except", {})
     \/ /\ UNCHANGED recaptcha_success
        /\ MainGoto("except", {})
  /\ UNCHANGED << modal_clicked, page_text, raised >>

\* lines 1103-1131: the confirmation button of the dialog, if one is found
MainModal ==
  /\ mpc = "modal"
  /\ \E o \in {"clicked", "no_button", "raise"} :
       /\ modal_clicked' = (o = "clicked")
       /\ MainGoto(IF o = "raise" THEN "except" ELSE "final", {})
  /\ UNCHANGED << recaptcha_success, page_text, raised >>

\* lines 1133-1164: the final screenshot, the look for a success marker and
\* the notification
MainFinal ==
  /\ mpc = "final"
  /\ \/ /\ MainGoto("except", {})
        /\ UNCHANGED page_text
     \/ \E text \in PageTexts :
          /\ page_text' = text
          /\ MainGoto("end", IF no_success_text(text) THEN {"failure"}
                             ELSE {"success"})
  /\ UNCHANGED << recaptcha_success, modal_clicked, raised >>

\* lines 1166-1185: the failure is notified and the exception raised again
MainExcept ==
  /\ mpc = "except"
  /\ raised' = TRUE
  /\ MainGoto("end", {"failure"})
  /\ UNCHANGED << recaptcha_success, modal_clicked, page_text >>

MainNext ==
  \/ MainBegin \/ MainLoad \/ MainRenew \/ MainSolve \/ MainModal
  \/ MainFinal \/ MainExcept

SpecMain == MainInit /\ [][MainNext]_vars

\* ------------------------------------------------------------------------
\* download_yolo_model of host2play_auto_renew.py (lines 61-117) and of
\* host2play_auto_renew_ci_selenium.py (lines 91-119)
\* ------------------------------------------------------------------------

\* the two entries of the list, by position
MODEL_DOWNLOAD_URLS == << 1, 2 >>

\* sizes of a file around the limit of 1,000,000 bytes
FileSizes == {134, 999999, 1000000, 1000001}

DownloadInit ==
  /\ SolverIdle
  /\ gphase = "download" /\ gtarget = 0 /\ gexists = FALSE
  /\ graises = FALSE /\ gdets = << >> /\ gout = << >>
  /\ gtext = << >> /\ gnum = 0
  /\ grun1 = NoRun /\ grun2 = NoRun
  /\ MainOff /\ gvertices = << >> /\ PasteOff
  /\ dpc = "check" /\ dfile \in {"playwright", "selenium"}
  /\ durl = 0 /\ tried = << >>
  /\ model_size \in FileSizes \cup {-1} /\ tmp_size = -1
  /\ temp_path_bound = FALSE /\ dresult = "none"

DownloadFrame ==
  UNCHANGED << ctrl, config, counters, chal, files, clicks, panelAppeared,
               challenge_frame, assigned, obs, acts, ia, gphase, gtarget,
               gexists, graises, gdets, gout, gtext, gnum, grun1, grun2,
               mainv, dfile, gvertices, pastev >>

DownloadReturn(r) ==
  /\ dpc' = "end" /\ dresult' = r

\* lines 64-71 (lines 92-94): a file of more than 1,000,000 bytes is kept;
\* host2play_auto_renew.py removes a smaller one before the downloads
DownloadCheck ==
  /\ dpc = "check"
  /\ IF model_size > 1000000
     THEN DownloadReturn("True") /\ UNCHANGED << durl, model_size >>
     ELSE /\ dpc' = "try" /\ durl' = 1 /\ UNCHANGED dresult
          /\ model_size' = IF dfile = "playwright" THEN -1 ELSE model_size
  /\ UNCHANGED << tried, tmp_size, temp_path_bound >>
  /\ DownloadFrame

\* the except clause of lines 109-113: temp_path is read, and it is a local
\* without a value until line 83 has run in this call
DownloadExceptPlaywright ==
  IF temp_path_bound
  THEN /\ tmp_size' = -1 /\ durl' = durl + 1
       /\ UNCHANGED << dpc, dresult >>
  ELSE /\ DownloadReturn("raised") /\ UNCHANGED << tmp_size, durl >>

\* one turn of the loop over the list (lines 75-113; lines 96-117)
DownloadTry ==
  /\ dpc = "try" /\ durl \in DOMAIN MODEL_DOWNLOAD_URLS
  /\ \E o \in {"request_fails", "write_fails", "written"},
        n \in FileSizes :
       /\ o # "written" => n = 134
       /\ tried' = Append(tried, [url |-> MODEL_DOWNLOAD_URLS[durl],
                                  outcome |-> o,
                                  bytes |-> IF o = "request_fails" THEN 0
                                            ELSE n])
       /\ IF o = "request_fails"
          THEN /\ UNCHANGED << model_size, temp_path_bound >>
               /\ IF dfile = "playwright" THEN DownloadExceptPlaywright
                  ELSE /\ durl' = durl + 1
                       /\ UNCHANGED << dpc, dresult, tmp_size >>
          ELSE IF o = "write_fails"
          THEN /\ temp_path_bound' = TRUE
               /\ tmp_size' = IF dfile = "playwright" THEN -1 ELSE 134
               /\ durl' = durl + 1
               /\ UNCHANGED << dpc, dresult, model_size >>
          ELSE /\ temp_path_bound' = TRUE
               /\ tmp_size' = -1
               /\ IF n < 1000000
                  THEN /\ durl' = durl + 1
                       /\ UNCHANGED << dpc, dresult, model_size >>
                  ELSE /\ model_size' = n
                       /\ DownloadReturn("True") /\ UNCHANGED durl
  /\ DownloadFrame

\* line 116 (line 119): the list is used up
DownloadGiveUp ==
  /\ dpc = "try" /\ durl \notin DOMAIN MODEL_DOWNLOAD_URLS
  /\ DownloadReturn("False")
  /\ UNCHANGED << durl, tried, model_size, tmp_size, temp_path_bound >>
  /\ DownloadFrame

DownloadNext == DownloadCheck \/ DownloadTry \/ DownloadGiveUp

SpecDownload == DownloadInit /\ [][DownloadNext]_vars

\* ------------------------------------------------------------------------
\* get_occupied_cells as a function of its list (lines 310-317)
\* ------------------------------------------------------------------------

MaxVertices == 3

\* the non-empty lists of cells of the 4x4 grid, in any order, with repeats
VertexLists == UNION { [1..n -> 1..16] : n \in 1..MaxVertices }

CellsInit ==
  /\ SolverIdle
  /\ gphase = "cells" /\ gtarget = 0 /\ gexists = FALSE
  /\ graises = FALSE /\ gdets = << >> /\ gout = << >>
  /\ gtext = << >> /\ gnum = 0
  /\ grun1 = NoRun /\ grun2 = NoRun
  /\ MainOff /\ DownloadOff /\ PasteOff
  /\ gvertices \in VertexLists

CellsFrame ==
  UNCHANGED << ctrl, config, counters, chal, files, clicks, panelAppeared,
               challenge_frame, assigned, obs, acts, ia, gtarget, gexists,
               graises, gdets, gtext, gnum, grun1, grun2, mainv, dlv,
               gvertices, pastev >>

\* get_occupied_cells(vertices)
Occupy ==
  /\ gphase = "cells"
  /\ gphase' = "occupied"
  /\ gout' = get_occupied_cells(gvertices)
  /\ CellsFrame

\* the function applied to its own result
OccupyAgain ==
  /\ gphase = "occupied"
  /\ gphase' = "occupied_twice"
  /\ gout' = get_occupied_cells(gout)
  /\ CellsFrame

CellsNext == Occupy \/ OccupyAgain

SpecCells == CellsInit /\ [][CellsNext]_vars

\* ------------------------------------------------------------------------
\* paste_new_img_on_main_img (lines 387-395) on the 300x300 image of a 3x3
\* challenge and a tile of 100x100 (screenshot_captcha_tile normalises the
\* tile, line 439).  An image is given by its pixels at the sample
\* coordinates; a pixel is [src, y, x, ch]: where it comes from and the
\* order of its three channels.
\* ------------------------------------------------------------------------

\* sample coordinates of the 300x300 image: the edges and the middle of the
\* three bands
Coords300 == {0, 50, 99, 100, 150, 199, 200, 250, 299}

\* the same for a tile of 100x100
Coords100 == {0, 50, 99}

RGB == << "r", "g", "b" >>

\* Image.open(path).convert('RGB') as an array: rows, columns, channels
OpenRGB(source, coords) ==
  [q \in coords \X coords |->
     [src |-> source, y |-> q[1], x |-> q[2], ch |-> RGB]]

\* cv2.cvtColor(img, cv2.COLOR_RGB2BGR): the channel axis is reversed
cvtColor(img) ==
  [q \in DOMAIN img |->
     [img[q] EXCEPT !.ch = << img[q].ch[3], img[q].ch[2], img[q].ch[1] >>]]

\* cv2.imwrite takes the channels as blue, green, red; the file is given
\* here as red, green, blue
imwrite(img) ==
  [q \in DOMAIN img |->
     [img[q] EXCEPT !.ch = << img[q].ch[3], img[q].ch[2], img[q].ch[1] >>]]

\* row and column are taken the other way round
paste_new_img_on_main_img_transposed(main, new, loc) ==
  LET row == (loc - 1) % 3
      col == (loc - 1) \div 3
      start_row == row * 100
      end_row == (row + 1) * 100
      start_col == col * 100
      end_col == (col + 1) * 100
      paste == [q \in DOMAIN main |->
                  IF /\ start_row <= q[1] /\ q[1] < end_row
                     /\ start_col <= q[2] /\ q[2] < end_col
                  THEN new[<< q[1] - start_row, q[2] - start_col >>]
                  ELSE main[q]]
  IN imwrite(cvtColor(paste))

\* what the function writes to 0.png
paste_new_img_on_main_img(main, new, loc) ==
  LET row == (loc - 1) \div 3
      col == (loc - 1) % 3
      start_row == row * 100
      end_row == (row + 1) * 100
      start_col == col * 100
      end_col == (col + 1) * 100
      paste == [q \in DOMAIN main |->
                  IF /\ start_row <= q[1] /\ q[1] < end_row
                     /\ start_col <= q[2] /\ q[2] < end_col
                  THEN new[<< q[1] - start_row, q[2] - start_col >>]
                  ELSE main[q]]
  IN imwrite(cvtColor(paste))

PasteInit ==
  /\ SolverIdle
  /\ gphase = "paste" /\ gtarget = 1 /\ gexists = TRUE
  /\ graises = FALSE /\ gdets = << >> /\ gout = << >>
  /\ gtext = << >> /\ gnum = 0
  /\ grun1 = NoRun /\ grun2 = NoRun
  /\ MainOff /\ DownloadOff /\ gvertices = << >>
  /\ png0_img = OpenRGB("main", Coords300)
  /\ ploc \in 1..9

PasteFrame ==
  UNCHANGED << ctrl, config, counters, chal, files, clicks, panelAppeared,
               challenge_frame, assigned, obs, acts, ia, gtarget, gexists,
               graises, gtext, gnum, grun1, grun2, mainv, dlv, gvertices,
               ploc >>

\* lines 795-798 for one answer
Paste ==
  /\ gphase = "paste"
  /\ gphase' = "pasted"
  /\ png0_img' = paste_new_img_on_main_img(png0_img,
                                           OpenRGB("new", Coords100), ploc)
  /\ UNCHANGED << gdets, gout >>
  /\ PasteFrame

\* line 805: the detector finds one box of the target class, with corners
\* on pixels of the image
Redetect ==
  /\ gphase = "pasted"
  /\ gphase' = "redetected"
  /\ \E x1 \in Coords300, y1 \in Coords300,
        x2 \in Coords300, y2 \in Coords300 :
       /\ x1 <= x2 /\ y1 <= y2
       /\ gdets' = << Det(gtarget, x1, y1, x2, y2) >>
       /\ gout' = dynamic_and_selection_solver(gtarget, gexists, graises,
                                               gdets')
  /\ UNCHANGED png0_img
  /\ PasteFrame

PasteNext == Paste \/ Redetect

SpecPaste == PasteInit /\ [][PasteNext]_vars

\* ------------------------------------------------------------------------
\* Properties
\* ------------------------------------------------------------------------

\* C1 (as stated): a call that returns True after a challenge panel has
\* appeared returns it in a step that observed the checkbox confirmed or
\* the challenge frame absent.
C1_NoFalseSuccess ==
  (pc = "done" /\ result = TRUE /\ panelAppeared)
    => signal \in {"checked", "frame_absent"}

C3_VerifyPriority ==
  [][ /\ pc = "verify" /\ pc' # "attempt_except" => pc' = "check_verified"
      /\ pc = "check_verified" =>
           IF obs' = "checked"
           THEN pc' = "done" /\ result' = TRUE /\ UNCHANGED outer_attempt
           ELSE pc' = "check_gone" /\ result' = "none"
      /\ pc = "check_gone" /\ obs' = "absent" =>
           pc' = "done" /\ result' = TRUE /\ UNCHANGED outer_attempt
    ]_vars

\* the last attempt clicked verify, did not see the checkbox confirmed, saw
\* the frame gone and returned True
C3_Witness ==
  /\ pc = "done" /\ result = TRUE /\ signal = "frame_absent"
  /\ obs = "absent" /\ attemptVerify
  /\ outer_attempt = max_attempts /\ max_attempts >= 2

\* C4: with neither signal after a submit the attempt loop is entered
\* again: it starts the next attempt when outer_attempt < max_attempts and
\* returns False otherwise; verify is clicked at most max_attempts times.
C4_RetryOrFail ==
  /\ [][ /\ pc = "check_gone" /\ obs' = "present" =>
              pc' = "outer_head" /\ result' = "none"
         /\ pc = "outer_head" =>
              IF outer_attempt < max_attempts
              THEN /\ pc' = "reload_head" /\ result' = "none"
                   /\ outer_attempt' = outer_attempt + 1
              ELSE pc' = "done" /\ result' = FALSE
       ]_vars
  /\ [](verifyClicks <= max_attempts)

\* every attempt clicked verify and the call returned False
C4_Witness ==
  /\ pc = "done" /\ result = FALSE
  /\ outer_attempt = max_attempts /\ max_attempts >= 2
  /\ verifyClicks = max_attempts /\ attemptVerify

\* C5 (as stated): none of the three counters is ever set back to a smaller
\* value before the call returns.
C5_NeverReset ==
  [][ /\ outer_attempt' >= outer_attempt
      /\ reload_count' >= reload_count
      /\ dynamic_rounds' >= dynamic_rounds ]_vars

\* C5 (amended): outer_attempt never decreases; reload_count is set back
\* only to 0 and only by the step that starts the next attempt;
\* dynamic_rounds is set back only to 0 and only outside the dynamic loop.
C5_CountersAmended ==
  [][ /\ outer_attempt' >= outer_attempt
      /\ reload_count' < reload_count =>
           /\ pc = "outer_head" /\ reload_count' = 0
           /\ outer_attempt' = outer_attempt + 1
      /\ dynamic_rounds' < dynamic_rounds =>
           /\ dynamic_rounds' = 0
           /\ pc \notin {"dyn_head", "poll", "refresh", "dyn_clicking"}
    ]_vars

\* the second attempt has just started, with reload_count back at 0
C5_Witness ==
  /\ pc = "reload_head" /\ outer_attempt = 2 /\ reload_count = 0
  /\ panelAppeared

\* the positions of the reload loop
ReloadLoopPcs ==
  {"reload_head", "check_passed", "reacquire", "get_target", "target_check",
   "classify", "accept", "after_reload"}

\* C6: a reload loop that ends without an accepted answer set has clicked
\* no cell and no verify button; the attempt ends there without raising and
\* the attempt loop goes on, returning False only with the attempts used up.
C6_ReloadExhaustionLocal ==
  /\ [](pc = "after_reload" /\ obs = "none" =>
          /\ reload_count = max_reload
          /\ clicked = {} /\ ~attemptVerify /\ result = "none")
  /\ [][ /\ pc = "after_reload" /\ obs = "none" =>
              /\ pc' = "outer_head" /\ acts' = {} /\ result' = "none"
              /\ UNCHANGED outer_attempt
         /\ pc \in ReloadLoopPcs =>
              acts' \cap {"grid_click", "verify_click"} = {}
         /\ pc = "outer_head" /\ pc' = "done" =>
              outer_attempt = max_attempts /\ result' = FALSE
       ]_vars

\* an attempt that is not the last has been given up for reload exhaustion
C6_Witness ==
  /\ pc = "outer_head" /\ obs = "exhausted"
  /\ reload_count = max_reload /\ outer_attempt < max_attempts
  /\ clicked = {} /\ ~attemptVerify /\ result = "none"

\* C7: with the sentinel as target, the step does nothing but click the
\* reload button (when it is there) and goes back to the head of the reload
\* loop, or raises; variant, answers, files and the reload counter stay as
\* they are, one unit of the counter having been taken by the iteration; no
\* classification is reached with the sentinel.  Both solvers.
C7_UnsupportedTarget ==
  /\ [][ (pc \in {"target_check", "ia_target_check"}
            /\ target_num = UNSUPPORTED) =>
           /\ acts' \subseteq {"reload_click"}
           /\ pc' \in {"reload_head", "ia_reload_head", "attempt_except",
                       "done"}
           /\ pc' \in {"reload_head", "ia_reload_head"} /\ obs' = "btn" =>
                acts' = {"reload_click"}
           /\ pc' = "done" => result' = FALSE
           /\ UNCHANGED << captcha_type, captcha, answers, png0, tiles,
                           clicked, reload_count, reload_attempts >>
       ]_vars
  /\ [](pc = "target_check" => reload_count \in 1..max_reload)
  /\ [](pc = "ia_target_check" => reload_attempts \in 1..max_reload_attempts)
  /\ [](pc \in {"classify", "ia_classify"} => target_num # UNSUPPORTED)

\* an unsupported target has been answered by a click on the reload button
C7_Witness ==
  /\ pc = "reload_head" /\ obs = "btn" /\ acts = {"reload_click"}
  /\ target_num = UNSUPPORTED /\ reload_count >= 1
  /\ captcha_type = "None" /\ answers = << >> /\ clicked = {}

\* the acceptance rule of the claim C8, written out
C8_Rule ==
  \/ captcha_type \in {"selection", "dynamic"} /\ Len(answers) >= 1
  \/ captcha_type = "squares" /\ Len(answers) >= 1 /\ Len(answers) < 16

\* C8: the click loop is entered from the reload loop only with an answer
\* set of the rule; any other set makes the step click the reload button
\* (when it is there) and click no cell.
C8_AcceptanceRule ==
  /\ [](pc \in {"wait_grid", "clicking"} => C8_Rule)
  /\ [][ pc = "accept" =>
           IF C8_Rule
           THEN pc' = "after_reload" /\ acts' = {}
           ELSE /\ pc' \in {"reload_head", "attempt_except"}
                /\ acts' \subseteq {"reload_click"}
                /\ obs' = "rejected_btn" => acts' = {"reload_click"}
       ]_vars

\* a squares answer of all sixteen cells has been refused and reloaded
C8_Witness ==
  /\ pc = "reload_head" /\ obs = "rejected_btn" /\ acts = {"reload_click"}
  /\ captcha_type = "squares" /\ Len(answers) = 16 /\ clicked = {}

\* C9 (as stated): whenever the verify button is clicked the current answer
\* set is not empty.
C9_NonEmptyAtSubmit ==
  "verify_click" \in acts => Len(answers) >= 1

\* C9 (amended): whenever the verify button is clicked the current answer
\* set is not empty, except after a dynamic loop whose re-detection found
\* nothing.
C9_NonEmptyAmended ==
  "verify_click" \in acts =>
    \/ Len(answers) >= 1
    \/ captcha_type = "dynamic" /\ dynamic_rounds >= 1

\* verify is clicked after a dynamic loop that ran all its rounds
C9_Witness ==
  /\ "verify_click" \in acts /\ captcha_type = "dynamic"
  /\ dynamic_rounds = max_dynamic_rounds /\ Len(answers) >= 1

\* C10 (as stated): for boxes inside the image the 3x3 solver returns
\* distinct indices of 1..9 and the 4x4 solver distinct indices of 1..16.
C10_AnswerSetRange ==
  LET inside(m) == \A i \in DOMAIN gdets :
                     /\ gdets[i].x1 \in 0..m /\ gdets[i].x2 \in 0..m
                     /\ gdets[i].y1 \in 0..m /\ gdets[i].y2 \in 0..m
      distinct  == \A i, j \in DOMAIN gout : i # j => gout[i] # gout[j]
  IN /\ gphase = "out3" /\ inside(300) =>
          distinct /\ Range(gout) \subseteq 1..9
     /\ gphase = "out4" /\ inside(450) =>
          distinct /\ Range(gout) \subseteq 1..16

\* the 4x4 solver has run on the single target box b, image and detector
\* being there
SquaresOf(b) ==
  /\ gphase = "out4" /\ gexists /\ ~graises
  /\ gtarget = 1 /\ gdets = << b >>

\* C11 (as stated): the box (0,0)-(112,112) gives {1} and the box
\* (100,100)-(250,250) gives {1,2,5,6}.
C11_SquareExamples ==
  /\ SquaresOf(Det(1, 0, 0, 112, 112)) => gout = << 1 >>
  /\ SquaresOf(Det(1, 100, 100, 250, 250)) => gout = << 1, 2, 5, 6 >>

\* C11 (amended): the box (0,0)-(112,112) gives {1}; the box
\* (100,100)-(250,250) has corners in the columns and rows 0 and 2 (250 lies
\* above 225) and gives the nine cells {1,2,3,5,6,7,9,10,11}.
C11_SquareExamplesAmended ==
  /\ SquaresOf(Det(1, 0, 0, 112, 112)) => gout = << 1 >>
  /\ SquaresOf(Det(1, 100, 100, 250, 250)) =>
       gout = << 1, 2, 3, 5, 6, 7, 9, 10, 11 >>

\* the solver has answered for the box (100,100)-(250,250)
C11_Witness ==
  SquaresOf(Det(1, 100, 100, 250, 250)) /\ Len(gout) = 9

\* the band of a coordinate as the claims C12 and C13 state it:
\* floor(v / 112.5), at most 3
StatedBand(v) == IF (2 * v) \div 225 > 3 THEN 3 ELSE (2 * v) \div 225

\* the inclusive rectangle of cells spanned by the corners of one box
StatedRect(box) ==
  { 4 * r + c + 1 : r \in StatedBand(box.y1)..StatedBand(box.y2),
                    c \in StatedBand(box.x1)..StatedBand(box.x2) }

\* every coordinate of the detector output lies in 0..m
BoxesInside(m) ==
  \A i \in DOMAIN gdets :
    /\ gdets[i].x1 \in 0..m /\ gdets[i].x2 \in 0..m
    /\ gdets[i].y1 \in 0..m /\ gdets[i].y2 \in 0..m

\* C12 (as stated): the answer of the 4x4 solver is the sorted union, over
\* the target detections, of the rectangles of cells spanned by the four
\* corner cells of each box.
C12_RectangleFill ==
  (gphase = "out4" /\ gexists /\ ~graises /\ BoxesInside(450)) =>
    gout = SortedSeq(UNION { StatedRect(gdets[i]) :
                             i \in target_index(gtarget, gdets) })

\* C13 (as stated): every integer point of 0..450 x 0..450 is given exactly
\* one cell, that of column floor(x/112.5) and row floor(y/112.5), at most 3.
C13_PointMappingTotal ==
  (gphase = "point" /\ gdets[1].x1 \in 0..450 /\ gdets[1].y1 \in 0..450) =>
    gout = << 4 * StatedBand(gdets[1].y1) + StatedBand(gdets[1].x1) + 1 >>

\* the tile index of the claim C14 for the centre (xc, yc) of a box: the
\* row r with 100 r <= yc < 100 (r+1), the column likewise
StatedCell3(box) ==
  LET r == CHOOSE r \in 0..4 :
             200 * r <= box.y1 + box.y2 /\ box.y1 + box.y2 < 200 * (r + 1)
      c == CHOOSE c \in 0..4 :
             200 * c <= box.x1 + box.x2 /\ box.x1 + box.x2 < 200 * (c + 1)
  IN r * 3 + c + 1

\* C14: the 3x3 solver answers with the set of the tile indices
\* floor(yc/100)*3 + floor(xc/100) + 1 of the target boxes, one per box,
\* equal indices collapsing; centre (50,50) is cell 1, centre (250,250) is
\* cell 9, and there are never more answers than target boxes.
C14_Mapping3x3 ==
  (gphase = "out3" /\ gexists /\ ~graises) =>
    LET targets == { i \in DOMAIN gdets : gdets[i].cls = gtarget } IN
    /\ Range(gout) = { StatedCell3(gdets[i]) : i \in targets }
    /\ Len(gout) = Cardinality(Range(gout))
    /\ Len(gout) <= Cardinality(targets)
    /\ gdets = << Det(1, 50, 50, 50, 50) >> => gout = << 1 >>
    /\ gdets = << Det(1, 250, 250, 250, 250) >> => gout = << 9 >>
    /\ gdets = << Det(1, 50, 50, 50, 50), Det(1, 0, 0, 50, 50) >> =>
         gout = << 1 >>

\* two target boxes of the same tile have given one answer
C14_Witness ==
  /\ gphase = "out3" /\ gexists /\ ~graises /\ gtarget = 1
  /\ gdets = << Det(1, 50, 50, 50, 50), Det(1, 0, 0, 50, 50) >>
  /\ gout = << 1 >>

\* a poll of the dynamic loop has read the identifiers and compared them
Polled == pc = "poll" /\ obs' \in {"new", "same"}

\* after the poll, the answered position a still has the identifier it had
\* before the clicks
StillHasId(a) ==
  /\ a \in DOMAIN img_urls /\ a \in DOMAIN new_img_urls'
  /\ new_img_urls'[a] = img_urls[a]

\* after the poll, the answered position a has an identifier other than the
\* one it had before the clicks
HasOtherId(a) ==
  /\ a \in DOMAIN img_urls /\ a \in DOMAIN new_img_urls'
  /\ new_img_urls'[a] # img_urls[a]

\* C15: a poll of the dynamic loop declares new content exactly when none of
\* the answered positions still has its identifier of before the clicks; it
\* then ends the polling, and a poll at which some answered position still
\* has its identifier does not declare new content.
C15_ChangeTrigger ==
  [][Polled =>
       /\ obs' = "new" <=> (\A a \in Range(answers) : ~StillHasId(a))
       /\ obs' = "new" => pc' = "refresh" /\ img_urls' = new_img_urls'
       /\ obs' = "same" => pc' \in {"poll", "verify"} /\ UNCHANGED img_urls
    ]_vars

\* the tiles 2 and 7 were answered and a poll found both replaced
C15_Witness ==
  /\ pc = "refresh" /\ obs = "new" /\ Range(answers) = {2, 7}
  /\ new_img_urls = Tiles9({2, 7}) /\ img_urls = new_img_urls

\* C16: a poll that finds the identifiers of before the clicks at all
\* answered positions reports no change, and a poll that finds another
\* identifier at one answered position or more reports a change, after which
\* the detection runs again.
C16_AtLeastOneChanged ==
  [][Polled =>
       /\ (\A a \in Range(answers) : StillHasId(a)) => obs' = "same"
       /\ (\E a \in Range(answers) : HasOtherId(a)) =>
            obs' = "new" /\ pc' = "refresh"
    ]_vars

\* C17: a round of the dynamic loop polls at most 20 times; when the 20th
\* poll still reports no change, the loop is left for the verify step with
\* no exception, the call does not return, the attempt counter stays, and the
\* verify step of that attempt clicks the button it finds.
C17_PollExhaustion ==
  [][/\ pc = "poll" => retry_detect <= 19
     /\ (Polled /\ retry_detect = 19 /\ obs' = "same") =>
          /\ pc' = "verify" /\ result' = "none"
          /\ UNCHANGED << outer_attempt, attemptVerify, verifyClicks >>
     /\ (pc = "verify" /\ obs' = "btn") =>
          /\ "verify_click" \in acts' /\ attemptVerify'
          /\ pc' = "check_verified" /\ UNCHANGED outer_attempt
    ]_vars

\* the 20th poll of a round has reported no change
C17_Witness ==
  /\ pc = "verify" /\ obs = "same" /\ captcha_type = "dynamic"
  /\ dynamic_rounds >= 1 /\ result = "none" /\ ~attemptVerify

\* the positions of the dynamic loop (lines 753-823)
DynPcs == {"dyn_head", "poll", "refresh", "dyn_clicking"}

\* C18: the dynamic loop is entered only when the variant is dynamic and
\* only by the last turn of the click loop over the first answer set, with
\* the round counter at 0; a round whose poll declares a change takes the
\* tile screenshots, detects again and runs the click loop over the new
\* answers; the loop is left for the verify step when the polling ends with
\* no change and when 15 rounds have run; the round counter never exceeds 15.
C18_DynamicLoop ==
  [][/\ pc' \in DynPcs => captcha_type' = "dynamic"
     /\ (pc \notin DynPcs /\ pc' \in DynPcs) =>
          /\ pc = "clicking" /\ Len(answers) >= 1 /\ k = Len(answers)
          /\ pc' = "dyn_head" /\ dynamic_rounds' = 0
     /\ (pc = "dyn_head" /\ dynamic_rounds < 15) =>
          pc' = "poll" /\ dynamic_rounds' = dynamic_rounds + 1
     /\ (pc = "dyn_head" /\ dynamic_rounds >= 15) =>
          pc' = "verify" /\ UNCHANGED << outer_attempt, result >>
     /\ (Polled /\ obs' = "new") => pc' = "refresh"
     /\ (Polled /\ obs' = "same" /\ pc' # "poll") =>
          pc' = "verify" /\ UNCHANGED << outer_attempt, result >>
     /\ pc = "refresh" =>
          /\ {"tile_screenshot", "detect"} \subseteq acts'
          /\ IF Len(answers') >= 1
             THEN pc' = "dyn_clicking" /\ k' = 1
             ELSE pc' = "verify"
     /\ (pc = "dyn_clicking" /\ obs' # "raise") =>
          IF k < Len(answers)
          THEN pc' = "dyn_clicking" /\ k' = k + 1
          ELSE pc' = "dyn_head"
     /\ dynamic_rounds' <= 15
    ]_vars

\* the 15th round of a dynamic challenge has clicked its answers and the
\* head of the loop has left for the verify step
C18_Witness ==
  /\ pc = "verify" /\ captcha_type = "dynamic" /\ dynamic_rounds = 15
  /\ obs = "none" /\ result = "none"

\* C19: when the click loop over the accepted answer set is through, every
\* cell of the set has been clicked, one click a turn, and the verify button
\* has not been clicked yet in the attempt; with the target bicycle (1) and
\* the answers 7 and 2 of a 3x3 selection challenge, the cells 7 and 2 have
\* been clicked when the solver goes on to the verify step.
C19_ClickThenSubmit ==
  [][/\ (pc = "clicking" /\ pc' \notin {"clicking", "attempt_except"}) =>
          /\ clicked' = Range(answers)
          /\ pc' \in {"verify", "dyn_head"}
     /\ (pc = "clicking" /\ obs' # "raise") => acts' = {"grid_click"}
     /\ pc \in {"wait_grid", "clicking", "dyn_clicking"} => ~attemptVerify
     /\ (/\ pc = "clicking" /\ pc' \notin {"clicking", "attempt_except"}
         /\ captcha_type = "selection" /\ target_num = 1
         /\ Range(answers) = {2, 7}) =>
          clicked' = {2, 7} /\ pc' = "verify"
    ]_vars

\* the word w occurs in the text, in capitals or not
Mentions(w) == \E i \in DOMAIN gtext : gtext[i].word = w

\* the table of the claim C20
StatedIds ==
  [w \in {"bicycle", "bus", "boat", "car", "hydrant", "motorcycle",
          "traffic"} |->
     CASE w = "bicycle" -> 1 [] w = "bus" -> 5 [] w = "boat" -> 8
       [] w = "car" -> 2 [] w = "hydrant" -> 10 [] w = "motorcycle" -> 3
       [] w = "traffic" -> 9]

\* the text has been resolved to the id the table of C20 gives it
ResolvedAsStated ==
  gphase = "num" =>
    /\ \A w \in DOMAIN StatedIds :
         (Mentions(w) /\ \A v \in DOMAIN StatedIds \ {w} : ~Mentions(v)) =>
           gnum = StatedIds[w]
    /\ (\A w \in DOMAIN StatedIds : ~Mentions(w)) => gnum = 1000

\* C20: a text with exactly one keyword of the table resolves to the id of
\* that keyword (bicycle 1, bus 5, boat 8, car 2, hydrant 10, motorcycle 3,
\* traffic 9), a text with no keyword resolves to 1000, and resolving
\* changes neither the text nor anything else of the program's state.
C20_TargetTable ==
  [][/\ ResolvedAsStated'
     /\ UNCHANGED << ctrl, config, counters, chal, files, clicks,
                     panelAppeared, obs, acts, ia, gtarget, gexists,
                     graises, gdets, gout, gtext >>
    ]_vars

\* 'stairs HYDRANT' has been resolved to 10
C20_Witness ==
  /\ gphase = "num" /\ gnum = 10
  /\ gtext = << Tok("stairs", FALSE), Tok("hydrant", TRUE) >>

\* the table order of the claim C21
StatedOrder ==
  << "bicycle", "bus", "boat", "car", "hydrant", "motorcycle", "traffic" >>

\* C21: a text with one keyword or more, written in capitals or not,
\* resolves to the id of the keyword that is first in the order bicycle,
\* bus, boat, car, hydrant, motorcycle, traffic among those that occur,
\* wherever they stand in the text; bus together with boat resolves to 5.
C21_TablePrecedence ==
  gphase = "num" =>
    /\ \A i \in DOMAIN StatedOrder :
         (Mentions(StatedOrder[i]) /\ \A j \in 1..(i - 1) :
                                        ~Mentions(StatedOrder[j])) =>
           gnum = StatedIds[StatedOrder[i]]
    /\ (Mentions("bus") /\ Mentions("boat") /\ ~Mentions("bicycle")) =>
         gnum = 5

\* 'BOAT bus', the later table entry first in the text, has resolved to 5
C21_Witness ==
  /\ gphase = "num" /\ gnum = 5
  /\ gtext = << Tok("boat", TRUE), Tok("bus", FALSE) >>

\* the panel text the step has read has the word w, in capitals or not
TitleHas(w) == \E i \in DOMAIN title_text' : title_text'[i].word = w

\* the variant the claim C22 gives the panel text the step has read
StatedVariant ==
  IF TitleHas("squares") THEN "squares"
  ELSE IF TitleHas("none") THEN "dynamic"
  ELSE "selection"

\* C22: a classification step takes the grid for 4x4 exactly when the panel
\* text has 'squares' (in any case, with or without 'none') and for 3x3
\* otherwise; the step that goes on to detect calls square_solver exactly
\* when the variant is squares and dynamic_and_selection_solver otherwise,
\* and the variant it records is squares, else dynamic when the text has
\* 'none', else selection.
C22_VariantClassification ==
  [][(pc \in {"classify", "ia_classify"} /\ "classify" \in acts') =>
       /\ "grid4" \in acts' <=> StatedVariant = "squares"
       /\ "grid3" \in acts' <=> StatedVariant # "squares"
       /\ "detect" \in acts' =>
            /\ "square_solver" \in acts' <=> StatedVariant = "squares"
            /\ "dynamic_and_selection_solver" \in acts' <=>
                 StatedVariant # "squares"
            /\ pc = "classify" => captcha_type' = StatedVariant
            /\ (pc = "ia_classify" /\ obs' = "accepted") =>
                 captcha' = StatedVariant
    ]_vars

\* a panel text with both 'squares' and 'none' has been classified as
\* squares
C22_Witness ==
  /\ pc = "accept" /\ captcha_type = "squares"
  /\ title_text = << Tok("squares", FALSE), Tok("none", FALSE) >>
  /\ "square_solver" \in acts

\* C23: each of the two solvers returns a list of cell numbers whatever the
\* file, the detector and the target class are, and the empty list when
\* 0.png is absent and when the detector call raises.
C23_NeverRaises ==
  gphase \in {"out3", "out4"} =>
    /\ gout \in Seq(Nat)
    /\ (~gexists \/ graises) => gout = << >>

\* square_solver has been called with no 0.png and has returned []
C23_Witness ==
  /\ gphase = "out4" /\ ~gexists /\ ~graises
  /\ gdets = << Det(1, 0, 0, 112, 112) >> /\ gout = << >>

\* C24: the step after the checkbox click and the wait returns True when it
\* finds no challenge frame, with the attempt loop not entered, no solver
\* called and no cell clicked, and enters the attempt loop with
\* outer_attempt = 0 when it finds one.
C24_CheckboxSkip ==
  [][pc = "await_challenge" =>
       /\ "checkbox_click" \in acts
       /\ obs' = "absent" =>
            /\ pc' = "done" /\ result' = TRUE /\ acts' = {}
            /\ outer_attempt' = 0 /\ captcha_type' = "None"
            /\ answers' = << >> /\ clicked' = {} /\ verifyClicks' = 0
       /\ obs' = "present" =>
            /\ pc' = "outer_head" /\ result' = "none"
            /\ outer_attempt' = 0
    ]_vars

\* the call has returned True because no challenge frame came up
C24_Witness ==
  /\ pc = "done" /\ result = TRUE /\ obs = "absent" /\ ~panelAppeared
  /\ outer_attempt = 0 /\ answers = << >>

\* C25: when a call of solve_recaptcha_with_yolo has left through its
\* finally clause, with True or with False, neither 0.png nor one of
\* 1.png .. 16.png exists.
C25_CleanupOnExit ==
  (pc = "done" /\ keep # "unread") => ~png0 /\ ~tiles

YoloLoopPcs ==
  ReloadLoopPcs \cup DynPcs \cup
    {"outer_head", "wait_grid", "clicking", "verify", "check_verified",
     "check_gone", "attempt_except"}

\* C27: the counters of solve_recaptcha_with_yolo stay within
\* 0..max_attempts, 0..15, 0..15 and 0..20.  A step of the reload loop
\* clicks the reload button only in an iteration 1..15 of an attempt
\* 1..max_attempts and ends that iteration, so that there is at most one
\* click an iteration.  At a cap the loop is left by its condition: the
\* reload loop for the test of exhaustion, the dynamic loop for the verify
\* step, the attempt loop for the return of False.
C27_CounterBounds ==
  [][pc' \in YoloLoopPcs \cup {"done"} =>
       /\ outer_attempt' \in 0..max_attempts
       /\ reload_count' \in 0..15
       /\ dynamic_rounds' \in 0..15
       /\ retry_detect' \in 0..20
       /\ (pc \in ReloadLoopPcs /\ "reload_click" \in acts') =>
            /\ reload_count \in 1..15 /\ outer_attempt \in 1..max_attempts
            /\ UNCHANGED << reload_count, outer_attempt >>
            /\ pc' \in {"reload_head", "attempt_except"}
       /\ (pc = "reload_head" /\ reload_count = 15) =>
            pc' = "after_reload" /\ obs' # "raise"
       /\ (pc = "dyn_head" /\ dynamic_rounds = 15) =>
            pc' = "verify" /\ obs' # "raise"
       /\ (pc = "outer_head" /\ outer_attempt = max_attempts) =>
            pc' = "done" /\ result' = FALSE /\ obs' # "raise"
    ]_vars

\* the reload loop of the last attempt has run its 15 iterations, the last
\* one with a click of the reload button, and has been left by its condition
C27_Witness ==
  /\ pc = "after_reload" /\ reload_count = 15
  /\ outer_attempt = max_attempts /\ max_attempts >= 2
  /\ result = "none"

\* C28: the steps that work on the challenge frame, the clicks of the
\* cells, the polls and the screenshots of the dynamic loop and the click of
\* the verify button among them, do it with a reference that was looked up
\* after the last await, not with one kept from an earlier step.
C28_FreshReferences ==
  [][(pc \in FramePcs \ {"after_reload", "dyn_head"})
       => (challenge_frame = "fresh")]_vars

\* a detection of the detector output maps to the cell c: its centre tile
\* on the 3x3 grid, a cell of the rectangle of its corners on the 4x4 grid
MapsTo(i, c) ==
  IF gphase = "out3" THEN c = Cell3x3(gdets[i])
  ELSE /\ four_cells(gdets[i]) # << >>
       /\ c \in Range(get_occupied_cells(four_cells(gdets[i])))

\* C29: a cell is in the answer of a solver only if a detection of the
\* target class maps to it; detections of other classes add no cell, and
\* without a detection of the target class the answer is empty.
C29_ClassFilter ==
  gphase \in {"out3", "out4"} =>
    LET ofTarget == { i \in DOMAIN gdets : gdets[i].cls = gtarget } IN
    /\ \A c \in Range(gout) : \E i \in ofTarget : MapsTo(i, c)
    /\ ofTarget = {} => gout = << >>

\* a box of the target class in tile 1 and a box of another class in tile 9
\* have given the answer [1]
C29_Witness ==
  /\ gphase = "out3" /\ gexists /\ ~graises /\ gtarget = 1
  /\ gdets = << Det(1, 50, 50, 50, 50), Det(2, 250, 250, 300, 300) >>
  /\ gout = << 1 >>

\* C30: an accepted answer is always used: when an iteration of the reload
\* loop, the fifteenth included, has left the loop with an accepted answer,
\* the same outer attempt goes on to the clicks and the submission, and no
\* attempt with an accepted answer is given up for the reload budget.
C30_AcceptedAnswerUsed ==
  [][(pc = "after_reload" /\ obs = "accepted")
       => (pc' \in {"wait_grid", "verify"} /\ obs' # "abandoned")]_vars

\* C31: when the solver reaches the Click step, captcha_type and answers
\* were both assigned in the iteration of the reload loop that was left by
\* break, from the challenge and the screenshot of that iteration; a variant
\* or an answer left by an earlier iteration is never the one clicked.
C31_SameIteration ==
  pc \in {"wait_grid", "clicking"} =>
    /\ assigned = {"captcha_type", "answers"}
    /\ png0
    /\ Accepted(captcha_type, answers)

\* the cells are clicked after an iteration that was not the first
C31_Witness ==
  /\ pc = "clicking" /\ reload_count >= 2 /\ k = 1
  /\ assigned = {"captcha_type", "answers"}

\* a step of an attempt in which a call on the page raised: into the except
\* clause of the attempt, or into a handler of its own (the target lookup,
\* the click of a cell, the look at the checkbox)
StepRaised ==
  \/ pc' = "attempt_except"
  \/ pc = "get_target" /\ obs' \in {"no_text_btn", "no_text_no_btn"}
  \/ pc \in {"clicking", "dyn_clicking"} /\ obs' \in {"js_click", "no_cell"}
  \/ pc \in {"check_passed", "check_verified"} /\ obs' = "raise"

\* C32: an exception raised by a step of an outer attempt never makes the
\* call return True and never leaves the call; it ends at most that
\* attempt: from the except clause the solver goes on with the next outer
\* attempt, or returns False when outer_attempt = max_attempts.
C32_ExceptionsEndAttempt ==
  [][/\ StepRaised => (result' = "none" /\ pc' # "done")
     /\ (pc = "attempt_except") =>
          IF outer_attempt < max_attempts
          THEN /\ pc' = "outer_head" /\ result' = "none"
               /\ outer_attempt' = outer_attempt
          ELSE pc' = "done" /\ result' = FALSE
    ]_vars

\* a click loop was ended by an exception before the last attempt
C32_Witness ==
  /\ pc = "attempt_except" /\ obs = "raise"
  /\ clicked # {} /\ outer_attempt < max_attempts

\* C33: in the 4x4 solver a target detection none of whose four corners
\* falls in a cell adds no cell, and the cells of every other target
\* detection of the image are still returned; the answer is empty only if
\* no target detection adds a cell.
C33_BadDetectionLocal ==
  (gphase = "out4" /\ gexists /\ ~graises) =>
    LET adding == { i \in DOMAIN gdets : /\ gdets[i].cls = gtarget
                                         /\ four_cells(gdets[i]) # << >> }
    IN /\ gout = SortedSeq(UNION { Range(get_occupied_cells(
                                            four_cells(gdets[i]))) :
                                   i \in adding })
       /\ gout = << >> => adding = {}

\* C34: in a round of the dynamic loop where a change was declared and the
\* re-detection gives no answer, no cell is clicked and no reload is asked
\* for, the loop ends at once and the solver goes to the verify button in
\* the same outer attempt.
C34_EmptyRedetection ==
  [][/\ (pc = "refresh" /\ answers' = << >>) =>
          /\ pc' = "verify" /\ result' = "none"
          /\ acts' \cap {"grid_click", "reload_click"} = {}
          /\ UNCHANGED << outer_attempt, reload_count, dynamic_rounds,
                          clicked >>
     /\ (pc = "verify" /\ obs' = "btn") =>
          /\ "verify_click" \in acts'
          /\ UNCHANGED outer_attempt
    ]_vars

\* the re-detection of a round has found nothing and the verify button is next
C34_Witness ==
  /\ pc = "verify" /\ obs \in {"pasted", "not_pasted"}
  /\ captcha_type = "dynamic" /\ answers = << >> /\ dynamic_rounds >= 1

\* C35: a poll declares new content only if an answered position has an
\* identifier both in the list read before the clicks and in the list just
\* read, and the two differ; a list just read that is empty, or shorter
\* than every answered position, declares no change.
C35_ComparableIdentifiers ==
  [][(Polled /\ obs' = "new") =>
       \E a \in Range(answers) :
         /\ a <= Len(new_img_urls') /\ a <= Len(before_img_urls)
         /\ new_img_urls'[a] # before_img_urls[a]
    ]_vars

\* a success marker is in the text, in whatever case
StatedMarker ==
  \E i \in DOMAIN page_text :
    page_text[i].word \in {"success", "renewed", "xuqi", "chenggong"}

\* C36: main sends the success notification only after the solver returned
\* True and the final page text held a success marker; when the solver
\* returns False no confirmation button is clicked, a failure notification
\* is sent and no success notification is sent in the run.
C36_SuccessNeedsSolve ==
  /\ "success" \in notified => (recaptcha_success = "True" /\ StatedMarker)
  /\ recaptcha_success = "False" =>
       /\ ~modal_clicked /\ "success" \notin notified
       /\ mpc = "end" => "failure" \in notified

\* the solver returned False and main has ended
C36_Witness ==
  /\ mpc = "end" /\ recaptcha_success = "False"
  /\ notified = {"start", "failure"} /\ ~raised

\* C37: download_yolo_model requests the entries of the list in order; an
\* entry whose request fails or whose file has less than 1,000,000 bytes is
\* skipped for the next one; True is returned only with a file of at least
\* 1,000,000 bytes at MODEL_PATH, False, and no exception, when every entry
\* has failed, and no model.onnx.tmp is left when the function returns.
C37_DownloadFallback ==
  /\ \A i \in DOMAIN tried : tried[i].url = MODEL_DOWNLOAD_URLS[i]
  /\ dresult = "True" => model_size >= 1000000
  /\ dresult = "False" => Len(tried) = Len(MODEL_DOWNLOAD_URLS)
  /\ dresult # "raised"
  /\ dpc = "end" => tmp_size = -1

\* the bounding rectangle of rows and columns of a set of cells
StatedBounding(cells) ==
  LET rowOf(c) == (c - 1) \div 4
      colOf(c) == (c - 1) % 4
  IN { c \in 1..16 :
         /\ \E a \in cells : rowOf(a) <= rowOf(c)
         /\ \E a \in cells : rowOf(a) >= rowOf(c)
         /\ \E a \in cells : colOf(a) <= colOf(c)
         /\ \E a \in cells : colOf(a) >= colOf(c) }

\* C38: for a non-empty list v of cells of 1..16 the result of
\* get_occupied_cells is sorted and without repeats, lies in 1..16, holds
\* every element of v and is the bounding rectangle of rows and columns of
\* v, so it depends neither on the order nor on the repeats of v; applied
\* to its own result the function gives the same list.
C38_OccupiedClosure ==
  /\ [](gphase \in {"occupied", "occupied_twice"} =>
          /\ \A i \in DOMAIN gout : \A j \in DOMAIN gout :
               i < j => gout[i] < gout[j]
          /\ Range(gout) \subseteq 1..16
          /\ Range(gvertices) \subseteq Range(gout)
          /\ Range(gout) = StatedBounding(Range(gvertices)))
  /\ [][(gphase = "occupied") => (gout' = gout)]_vars

\* cells 6 and 1, given in this order and cell 6 twice, have filled the
\* square of the cells 1, 2, 5, 6, and the second application has run
C38_Witness ==
  /\ gphase = "occupied_twice" /\ gvertices = << 6, 1, 6 >>
  /\ gout = << 1, 2, 5, 6 >>

\* the pixel (y, x) lies in the region of 100x100 of the cell loc
StatedRegion(y, x, loc) ==
  LET r == (loc - 1) \div 3
      c == (loc - 1) % 3
  IN /\ 100 * r <= y /\ y < 100 * r + 100
     /\ 100 * c <= x /\ x < 100 * c + 100

\* the centre ((x1+x2)/2, (y1+y2)/2) of the box lies in the region of the
\* cell loc; compared doubled
StatedCentred(box, loc) ==
  LET r == (loc - 1) \div 3
      c == (loc - 1) % 3
  IN /\ 200 * r <= box.y1 + box.y2 /\ box.y1 + box.y2 < 200 * r + 200
     /\ 200 * c <= box.x1 + box.x2 /\ box.x1 + box.x2 < 200 * c + 200

\* C39: for a cell loc of 1..9 the paste overwrites exactly the pixels of
\* rows [100r, 100r+100) and columns [100c, 100c+100), r = (loc-1) div 3 and
\* c = (loc-1) mod 3, with the tile, and leaves every other pixel of the
\* 300x300 image as it was; a detection centred in that region is mapped
\* back to loc by the 3x3 solver.
C39_PasteMatchesMapper ==
  gphase \in {"pasted", "redetected"} =>
    /\ \A q \in DOMAIN png0_img :
         png0_img[q] =
           IF StatedRegion(q[1], q[2], ploc)
           THEN [src |-> "new", y |-> q[1] - 100 * ((ploc - 1) \div 3),
                 x |-> q[2] - 100 * ((ploc - 1) % 3), ch |-> RGB]
           ELSE [src |-> "main", y |-> q[1], x |-> q[2], ch |-> RGB]
    /\ (gphase = "redetected" /\ StatedCentred(gdets[1], ploc)) =>
         gout = << ploc >>

\* the tile of cell 6 is pasted and a box inside it has been mapped to 6
C39_Witness ==
  /\ gphase = "redetected" /\ ploc = 6
  /\ png0_img[<< 150, 250 >>].src = "new"
  /\ png0_img[<< 150, 150 >>].src = "main"
  /\ gdets = << Det(1, 200, 100, 299, 199) >> /\ gout = << 6 >>

====
